---- MODULE Spec2Model ----
(***************************************************************************)
(* BizRadar: the background scheduler (BackgroundMonitor), the store rows  *)
(* it reads and writes, and the scans it drives.                           *)
(*                                                                         *)
(* Execution contexts: the foreground context (FG) that calls start, stop, *)
(* restart, update_settings, force_scan_now and the manual scans; the      *)
(* _monitor_loop threads spawned by start(); the one-shot threads spawned  *)
(* by force_scan_now().  A blocking call (Thread.join with its timeout,    *)
(* time.sleep, the HTTP request inside perform_scan) ends a step, so the   *)
(* other contexts interleave exactly where the code can be pre-empted for  *)
(* a long time.                                                            *)
(*                                                                         *)
(* BackgroundMonitor.scheduler_running is written by _monitor_loop and     *)
(* stop() and read by get_status() only; it decides nothing and is not a   *)
(* variable here.  The store's writes are taken to succeed.                *)
(*                                                                         *)
(* Seven specifications.  Spec is the scheduler, in which one perform_scan *)
(* is a request and an outcome drawn from ScanOutcomes.  ScanSpec is the   *)
(* scan engine (MonitoringService.perform_scan) on its own, place by       *)
(* place, over the businesses table: one caller, the scheduler at rest,    *)
(* and the operator toggling competitor flags between scans.  In ScanSpec  *)
(* the reads and writes of the table succeed, and a scan fails where       *)
(* search_nearby raises.  SaveSpec is the scan engine where save_business  *)
(* can fail.  LimiterSpec is the RateLimiter of the Foursquare client on   *)
(* its own.  NotifySpec is the scheduler with the notifications view       *)
(* marking rows read and dismissed.  StoreSpec is the monitoring_settings  *)
(* table under save_monitoring_settings and get_monitoring_settings.       *)
(* ClientSpec is the FoursquareClient, request by request, against an API  *)
(* that answers 200, 429, an error status or not at all; its times are     *)
(* seconds and only its sleeps move them.                                  *)
(***************************************************************************)
EXTENDS Integers, Naturals, Sequences, FiniteSets, TLC

VARIABLES
    db_settings,        \* monitoring_settings row get_monitoring_settings() returns, or NULL
    notifications,      \* rows of the notifications table, oldest first
    scan_history,       \* rows of the scan_history table, oldest first
    current_settings,   \* BackgroundMonitor.current_settings
    is_running,         \* BackgroundMonitor.is_running
    stop_event,         \* BackgroundMonitor.stop_event (threading.Event)
    monitor_thread,     \* BackgroundMonitor.monitor_thread: a thread id, or 0 for None
    jobs,               \* schedule.jobs of the module-level default scheduler
    thr,                \* position of every thread
    scan,               \* per context: position inside perform_scan, job being run, settings passed
    fgpc,               \* position of the foreground context
    ret,                \* value returned by the last foreground call
    call,               \* the foreground call in progress or last made (history)
    prev_op,            \* the foreground call before it (history)
    nthreads,           \* _monitor_loop threads spawned so far
    nforce,             \* force_scan_now threads spawned so far
    events,             \* foreground calls, settings writes and timer expiries so far
    stopped,            \* loop threads that were monitor_thread when stop() signalled (history)
    world,              \* the place records the source can return and the settings in use
    businesses,         \* rows of the businesses table
    clock,              \* what datetime.now() returns
    eng,                \* the perform_scan under way in the scan engine: its locals
    calls,              \* per perform_scan of the scan engine: its arguments, the table before
                        \* it, whether search_nearby raised (history)
    edits,              \* toggle_competitor_status calls so far
    rate_limiter,       \* FoursquareClient.rate_limiter
    time,               \* what time.time() returns
    allowed,            \* value returned by can_make_request if it was the last call
                        \* made and time.time() has not moved since, else None
    recorded,           \* the value of time.time() at every record_request so far (history)
    client,             \* the FoursquareClient call under way: its frame, and what the
                        \* last call returned
    sent,               \* the HTTP requests session.get has issued so far (history)
    settings_table,     \* rows of the monitoring_settings table; the id of a row is its
                        \* position
    last_saved          \* the argument of the last save_monitoring_settings (history)

vars == <<db_settings, notifications, scan_history, current_settings, is_running,
          stop_event, monitor_thread, jobs, thr, scan, fgpc,
          ret, call, prev_op, nthreads, nforce, events, stopped,
         world, businesses, clock, eng, calls, edits, rate_limiter, time, allowed,
         recorded, client, sent, settings_table, last_saved>>

\* The state of the Foursquare client and its rate limiter
lvars == <<rate_limiter, time, allowed, recorded, client, sent>>

\* The monitoring_settings table
tvars == <<settings_table, last_saved>>

\* The state outside the scheduler: the scan engine and the rate limiter
evars == <<world, businesses, clock, eng, calls, edits, lvars, tvars>>

(* ------------------------------ bounds --------------------------------- *)
\* Events from outside the scheduler: foreground calls, writes of the settings
\* row, timer expiries.  Every thread is spawned by one of them.
MaxEvents == 3

\* Calls of perform_scan in one behaviour of the scan engine
MaxScans == 2

\* Length of the list one search_nearby returns
MaxLen == 2

\* Calls of toggle_competitor_status in one behaviour of the scan engine
MaxEdits == 1

\* The last value of time.time() in one behaviour of the rate limiter
MaxTime == 4

\* Calls of record_request in one behaviour of the rate limiter
MaxRequests == 3

\* Calls of the Foursquare client in one behaviour
MaxCalls == 2

\* Frames of _make_request the interpreter allows one call to nest
MaxAttempts == 3

\* Results of the longest search response
MaxResults == 11

(* --------------------------- value domains ----------------------------- *)
\* None where a MonitoringSettings is expected
NULL == [status |-> "none", scan_interval_minutes |-> 0]

\* Return values of the foreground calls
None  == "None"
True  == "True"
False == "False"

ACTIVE   == "active"
PAUSED   == "paused"
INACTIVE == "inactive"
MonitoringStatus == {ACTIVE, PAUSED, INACTIVE}

Intervals == {30, 60}

\* The settings the model draws from: both intervals while Active, one otherwise
MonitoringSettings ==
    { s \in [status : MonitoringStatus, scan_interval_minutes : Intervals] :
        s.status /= ACTIVE => s.scan_interval_minutes = 60 }

COMPETITOR_ALERT == "competitor_alert"
NEW_BUSINESS     == "new_business"
BUSINESS_UPDATED == "business_updated"

\* A notification row; the message is the sequence of the pieces its f-string joins
Notification(type, title, message) ==
    [type |-> type, title |-> title, message |-> message,
     business_fsq_id |-> None, business_name |-> None,
     read |-> FALSE, dismissed |-> FALSE]

Started == Notification(COMPETITOR_ALERT, "Monitoring Started",
                        <<"Background monitoring started for ", "business_name">>)
Stopped == Notification(COMPETITOR_ALERT, "Monitoring Stopped",
                        <<"Background monitoring has been stopped">>)

FG           == 0
LoopThreads  == 1..MaxEvents
ForceThreads == (MaxEvents + 1)..(2 * MaxEvents)
Threads      == LoopThreads \cup ForceThreads
Contexts     == {FG} \cup Threads

\* What one perform_scan can hand back to the scheduler: the ScanHistory it
\* saved, and how many per-business notifications it persisted on the way.
\* `raised` marks the scan whose exception handler itself raised (str(e) failing
\* at line 80): the finally clause still saves the row, success already False and
\* no error text yet, and the exception leaves perform_scan.
ScanOutcomes ==
    { [success |-> TRUE,  new_businesses |-> 0, updated_businesses |-> 0, alerts |-> 0,
       error_message |-> None, raised |-> FALSE],
      [success |-> TRUE,  new_businesses |-> 1, updated_businesses |-> 0, alerts |-> 1,
       error_message |-> None, raised |-> FALSE],
      [success |-> TRUE,  new_businesses |-> 0, updated_businesses |-> 5, alerts |-> 0,
       error_message |-> None, raised |-> FALSE],
      [success |-> TRUE,  new_businesses |-> 0, updated_businesses |-> 6, alerts |-> 0,
       error_message |-> None, raised |-> FALSE],
      [success |-> FALSE, new_businesses |-> 0, updated_businesses |-> 0, alerts |-> 0,
       error_message |-> "connection refused", raised |-> FALSE],
      [success |-> FALSE, new_businesses |-> 0, updated_businesses |-> 0, alerts |-> 0,
       error_message |-> None, raised |-> TRUE] }

ScanHistory(o) == [success |-> o.success, new_businesses |-> o.new_businesses,
                   updated_businesses |-> o.updated_businesses,
                   error_message |-> o.error_message]

Idle == [phase |-> "idle", job |-> 0, settings |-> NULL]

NoCall == [op |-> "none", n |-> 0, log0 |-> 0, run0 |-> FALSE, quiet0 |-> TRUE,
           arg |-> NULL, old0 |-> NULL]

\* Category names and the category strings of the settings are sequences of
\* characters, so that lower() and `in` are computed
Cafe == <<"C", "a", "f">>
Bar  == <<"B", "a", "r">>
Gas  == <<"G", "a", "s">>

\* str.lower() over the letters in use
lower(str) ==
    [i \in 1..Len(str) |->
        CASE str[i] = "A" -> "a" [] str[i] = "B" -> "b" [] str[i] = "C" -> "c"
          [] str[i] = "F" -> "f" [] str[i] = "G" -> "g" [] str[i] = "R" -> "r"
          [] str[i] = "S" -> "s" [] OTHER -> str[i]]

\* `sub in str` of two strings
contains(sub, str) ==
    \E k \in 0..(Len(str) - Len(sub)) : SubSeq(str, k + 1, k + Len(sub)) = sub

\* None where a float is expected, and a key the location dict does not hold
NoNumber == 0 - 1

\* The `location` dict of one search result: its latitude and address keys
\* (longitude is handled like latitude; locality, region, postcode, country like
\* address) and whether it holds any other key
EmptyLocation == [latitude |-> NoNumber, address |-> None, other |-> FALSE]
ApiLocations ==
    { EmptyLocation,
      [latitude |-> 10, address |-> "Main St", other |-> FALSE],
      [latitude |-> 20, address |-> "Main St", other |-> FALSE],
      [latitude |-> NoNumber, address |-> "Main St", other |-> FALSE],
      [latitude |-> NoNumber, address |-> None, other |-> TRUE] }

Location(latitude, address) == [latitude |-> latitude, address |-> address]

\* PlaceData as search_nearby builds it (hours, which the scan never reads, left out)
BasePlace(id) ==
    [fsq_id |-> id, name |-> "Uno", categories |-> <<Cafe, Bar>>,
     location |-> [latitude |-> 10, address |-> "Main St", other |-> FALSE],
     rating |-> 40, website |-> None, tel |-> None, verified |-> FALSE,
     popularity |-> NoNumber]

\* The place records the model draws from: a base record, every record that
\* differs from it in one field, and records with another identifier.
\* Ratings are in tenths.
Places ==
    LET b == BasePlace("a") IN
    {b, [b EXCEPT !.name = "Due"], [b EXCEPT !.website = "uno.example"],
     [b EXCEPT !.tel = "555"], [b EXCEPT !.verified = TRUE], [b EXCEPT !.popularity = 7]}
    \cup {[b EXCEPT !.rating = r] : r \in {NoNumber, 0, 45}}
    \cup {[b EXCEPT !.categories = c] : c \in {<<Bar, Cafe>>, <<Cafe>>, <<Gas>>, <<>>}}
    \cup {[b EXCEPT !.location = l] : l \in ApiLocations}
    \cup {BasePlace("b"), [BasePlace("b") EXCEPT !.categories = <<Gas>>]}

\* The fields of MonitoringSettings perform_scan reads
DefaultSettings ==
    [categories_to_monitor |-> <<>>, exclude_categories |-> <<>>,
     min_rating_threshold |-> NoNumber,
     notify_new_businesses |-> TRUE, notify_rating_changes |-> TRUE,
     notify_trending |-> TRUE]

ScanSettings ==
    LET d == DefaultSettings IN
    {d, [d EXCEPT !.notify_new_businesses = FALSE], [d EXCEPT !.notify_rating_changes = FALSE],
     [d EXCEPT !.notify_trending = FALSE]}
    \cup {[d EXCEPT !.categories_to_monitor = c] : c \in {<< <<"c", "a", "f">> >>, << <<"G", "A", "S">> >>}}
    \cup {[d EXCEPT !.exclude_categories = c] : c \in {<< <<"g", "a", "s">> >>, << <<"B", "A">> >>}}
    \cup {[d EXCEPT !.min_rating_threshold = r] : r \in {0, 42}}

\* What one behaviour of the scan engine is run with: the two place records
\* the source returns lists of, and the settings perform_scan is called with.
\* Settings other than the default meet the places they tell apart.
SettingsProbes ==
    {p \in Places : p.fsq_id = "b" \/ p.rating /= 40 \/ p.categories = <<Gas>>}

\* What search_nearby raises on a response that is not as expected:
\* response.get of a JSON array, or result['fsq_id'] of a string
AttributeError == [type |-> "AttributeError", args |-> <<"'list' object has no attribute 'get'">>]
TypeError == [type |-> "TypeError", args |-> <<"string indices must be integers">>]

\* str(e) of an exception
str_of_no_args(e) == ""
str(e) == IF e.args = <<>> THEN "" ELSE e.args[1]

\* A world in which every write of the businesses table succeeds and the
\* operator leaves the competitor flags alone
World(places, settings) ==
    [places |-> places, settings |-> settings, toggles |-> {},
     save_results |-> {TRUE}, raises |-> {AttributeError}]

Rated45 == [BasePlace("a") EXCEPT !.rating = 45]

Worlds ==
    {World({BasePlace("a"), q}, {st}) :
        q \in Places \ {BasePlace("a")}, st \in {DefaultSettings}}
    \cup {World({BasePlace("a"), q}, {st}) :
        q \in SettingsProbes, st \in ScanSettings}
    \cup {World({BasePlace("a"), [BasePlace("b") EXCEPT !.categories = <<Gas>>]},
                {DefaultSettings, st}) :
        st \in {[DefaultSettings EXCEPT !.categories_to_monitor = << <<"c", "a", "f">> >>],
                 [DefaultSettings EXCEPT !.exclude_categories = << <<"g", "a", "s">> >>],
                 [DefaultSettings EXCEPT !.notify_rating_changes = FALSE]}}
    \* the monitored categories change between two scans of one business
    \cup {World({BasePlace("a"), Rated45},
                {DefaultSettings,
                 [DefaultSettings EXCEPT !.categories_to_monitor = << <<"G", "A", "S">> >>]})}
    \* a rating threshold is set between two scans of one business
    \cup {World({BasePlace("a"), [BasePlace("a") EXCEPT !.rating = 0]},
                {DefaultSettings, [DefaultSettings EXCEPT !.min_rating_threshold = 42]})}
    \* the operator toggles the competitor flag of business a
    \cup {[World({BasePlace("a"), Rated45}, {st}) EXCEPT !.toggles = {"a"}] :
        st \in {DefaultSettings,
                 [DefaultSettings EXCEPT !.categories_to_monitor = << <<"G", "A", "S">> >>]}}
    \cup {[World({BasePlace("a"), BasePlace("b")}, {DefaultSettings})
             EXCEPT !.raises = {TypeError}]}

\* Worlds in which a write of the businesses table can fail
SaveWorlds ==
    {[World({BasePlace("a"), q}, {DefaultSettings}) EXCEPT !.save_results = {TRUE, FALSE}] :
        q \in {BasePlace("b"), Rated45}}

NoWorld == [places |-> {}, settings |-> {}, toggles |-> {}, save_results |-> {}, raises |-> {}]

\* The lists search_nearby can return in world w
Fetched(w) == UNION {[1..n -> w.places] : n \in 0..MaxLen}

\* new_saved and updated_saved: what save_business returned for each entry of
\* the two lists (history; perform_scan drops the value)
EngIdle == [pc |-> "idle", settings |-> DefaultSettings, places |-> <<>>, i |-> 0,
            new_businesses |-> <<>>, updated_businesses |-> <<>>,
            new_saved |-> <<>>, updated_saved |-> <<>>]

\* RateLimiter(max_requests, time_window) as constructed
RateLimiter(max_requests, time_window) ==
    [max_requests |-> max_requests, time_window |-> time_window, requests |-> <<>>]

NoLimiter == RateLimiter(0, 0)

\* The limiters one behaviour of the rate limiter starts from
Limiters == {RateLimiter(n, w) : n \in 1..2, w \in 1..3}

\* No client call has been made
NoClient ==
    [pc |-> "idle", op |-> "none", endpoint |-> "", params |-> "", attempts |-> 0,
     gate_sleeps |-> 0, retry_sleeps |-> 0, ncalls |-> 0,
     body |-> [array |-> FALSE, results |-> <<>>], statuses |-> {},
     result |-> [kind |-> "pending", places |-> <<>>, error |-> ""]]

(* ------------------------------ helpers -------------------------------- *)
get_monitoring_settings == db_settings

IsActive(s) == s /= NULL /\ s.status = ACTIVE

is_alive(t) == t /= 0 /\ thr[t] \notin {"unborn", "dead"}

InPerformScan(c) == scan[c].phase = "fetch"

\* No scan in progress and no thread about to begin one
Quiet == /\ \A c \in Contexts : ~InPerformScan(c)
         /\ \A t \in Threads : thr[t] /= "spawned"

\* History only: what the state was when the foreground call began
NewCall(op, arg) ==
    [op |-> op, n |-> events + 1, log0 |-> Len(notifications), run0 |-> is_running,
     quiet0 |-> Quiet, arg |-> arg,
     old0 |-> IF arg = NULL THEN NULL ELSE current_settings]

\* schedule.every(interval).minutes.do(job_func): next_run lies in the future
\* `ran` is whether last_run has been set
Job(id, interval) == [id |-> id, interval |-> interval, due |-> FALSE, ran |-> FALSE]

Init ==
    /\ db_settings \in {NULL} \cup MonitoringSettings
    /\ notifications = <<>>
    /\ scan_history = <<>>
    /\ current_settings = NULL
    /\ is_running = FALSE
    /\ stop_event = FALSE
    /\ monitor_thread = 0
    /\ jobs = {}
    /\ thr = [t \in Threads |-> "unborn"]
    /\ scan = [c \in Contexts |-> Idle]
    /\ fgpc = "idle"
    /\ ret = None
    /\ call = NoCall
    /\ prev_op = "none"
    /\ nthreads = 0
    /\ nforce = 0
    /\ events = 0
    /\ stopped = {}
    /\ world = NoWorld
    /\ businesses = {}
    /\ clock = 0
    /\ eng = EngIdle
    /\ calls = <<>>
    /\ edits = 0
    /\ rate_limiter = NoLimiter
    /\ time = 0
    /\ allowed = None
    /\ recorded = <<>>
    /\ client = NoClient
    /\ sent = <<>>
    /\ settings_table = <<>>
    /\ last_saved = NULL

(* ------------------- BackgroundMonitor: foreground --------------------- *)
\* start() that checks only that settings exist
can_start_any_status(s) == s /= NULL

\* start(): the two early returns on the loaded settings
can_start(s) == s /= NULL /\ s.status = ACTIVE

\* start() that schedules with the interval cached before the reload
schedule_interval_stale(s) ==
    IF current_settings /= NULL THEN current_settings.scan_interval_minutes
    ELSE s.scan_interval_minutes

\* start(): the period handed to schedule.every(...)
schedule_interval(s) == s.scan_interval_minutes

\* stop() without its early return
stop_guard_always == TRUE

\* stop(): the early return
stop_guard == is_running

\* create_notification -> save_notification: one more row
create_notification(log, n) == Append(log, n)

\* update_settings() that looks at the interval only
settings_changed_interval_only(new_settings, old_interval, old_status) ==
    new_settings.scan_interval_minutes /= old_interval

\* update_settings(): the condition under which it restarts or stops
settings_changed(new_settings, old_interval, old_status) ==
    \/ new_settings.scan_interval_minutes /= old_interval
    \/ new_settings.status /= old_status

\* schedule.clear(): drops every job of the default scheduler
schedule_clear(js) == {}

\* The body of start(), run by the foreground context
start_body ==
    IF is_running
    THEN /\ ret' = False
         /\ UNCHANGED <<current_settings, jobs, stop_event, monitor_thread, thr,
                        is_running, notifications, nthreads>>
    ELSE LET s == get_monitoring_settings IN
         /\ current_settings' = s
         /\ IF ~can_start(s)
            THEN /\ ret' = False
                 /\ UNCHANGED <<jobs, stop_event, monitor_thread, thr,
                                is_running, notifications, nthreads>>
            ELSE /\ nthreads' = nthreads + 1
                 /\ jobs' = schedule_clear(jobs) \cup {Job(nthreads', schedule_interval(s))}
                 /\ stop_event' = FALSE
                 /\ monitor_thread' = nthreads'
                 /\ thr' = [thr EXCEPT ![nthreads'] = "loop"]
                 /\ is_running' = TRUE
                 /\ notifications' = create_notification(notifications, Started)
                 /\ ret' = True

\* The part of stop() before Thread.join
stop_signal ==
    /\ stop_event' = TRUE
    /\ jobs' = schedule_clear(jobs)
    /\ stopped' = IF monitor_thread /= 0 THEN stopped \cup {monitor_thread} ELSE stopped

\* stop() that writes no notification
stop_finish_silent ==
    /\ is_running' = FALSE
    /\ UNCHANGED notifications

\* The part of stop() after Thread.join returned (thread gone, or 5 s elapsed)
stop_finish ==
    /\ is_running' = FALSE
    /\ notifications' = create_notification(notifications, Stopped)

BeginCall(op, arg) ==
    /\ fgpc = "idle"
    /\ events < MaxEvents
    /\ events' = events + 1
    /\ call' = NewCall(op, arg)
    /\ prev_op' = call.op

start ==
    /\ BeginCall("start", NULL)
    /\ start_body
    /\ fgpc' = "idle"
    /\ UNCHANGED <<db_settings, scan_history, scan, nforce, stopped>>
    /\ UNCHANGED evars

\* stop(), restart() and update_settings() share stop(): `op` says who called it
stop_call(op, arg) ==
    /\ BeginCall(op, arg)
    /\ IF stop_guard
       THEN /\ stop_signal
            /\ fgpc' = "stop_join"
            /\ UNCHANGED ret
       ELSE /\ fgpc' = IF op = "stop" THEN "idle" ELSE "restart_sleep"
            /\ ret' = IF op = "stop" THEN None ELSE ret
            /\ UNCHANGED <<stop_event, jobs, stopped>>
    /\ UNCHANGED <<db_settings, notifications, scan_history, is_running,
                   monitor_thread, thr, scan, nthreads, nforce>>

stop ==
    /\ stop_call("stop", NULL)
    /\ UNCHANGED current_settings
    /\ UNCHANGED evars

stop_join ==
    /\ fgpc = "stop_join"
    /\ stop_finish
    /\ IF call.op \in {"restart", "update_restart"}
       THEN fgpc' = "restart_sleep" /\ UNCHANGED ret
       ELSE fgpc' = "idle" /\ ret' = None
    /\ UNCHANGED <<db_settings, scan_history, current_settings, stop_event, monitor_thread,
                   jobs, thr, scan, call, prev_op, nthreads, nforce, events, stopped>>
    /\ UNCHANGED evars

restart ==
    /\ stop_call("restart", NULL)
    /\ UNCHANGED current_settings
    /\ UNCHANGED evars

\* restart() that stops and never starts again
restart_without_start ==
    /\ fgpc = "restart_sleep"
    /\ fgpc' = "idle"
    /\ ret' = False
    /\ UNCHANGED <<db_settings, notifications, scan_history, current_settings, is_running,
                   stop_event, monitor_thread, jobs, thr, scan, call, prev_op,
                   nthreads, nforce, events, stopped>>
    /\ UNCHANGED evars

\* restart(): time.sleep(1) is over, return self.start()
restart_start ==
    /\ fgpc = "restart_sleep"
    /\ start_body
    /\ fgpc' = "idle"
    /\ UNCHANGED <<db_settings, scan_history, scan, call, prev_op,
                   nforce, events, stopped>>
    /\ UNCHANGED evars

\* The test update_settings() makes before it restarts or stops the scheduler
update_applies_when_stopped(new_settings, old_interval, old_status) ==
    settings_changed(new_settings, old_interval, old_status)
update_applies(new_settings, old_interval, old_status) ==
    is_running /\ settings_changed(new_settings, old_interval, old_status)

\* update_settings(): cache the argument, then restart or stop when it matters
update_settings(new_settings) ==
    LET old_interval == IF current_settings /= NULL
                        THEN current_settings.scan_interval_minutes ELSE 0
        old_status   == IF current_settings /= NULL
                        THEN current_settings.status ELSE INACTIVE
    IN  /\ current_settings' = new_settings
        /\ IF update_applies(new_settings, old_interval, old_status)
           THEN IF new_settings.status = ACTIVE
                THEN stop_call("update_restart", new_settings)
                ELSE stop_call("update_stop", new_settings)
           ELSE /\ BeginCall("update", new_settings)
                /\ fgpc' = "idle"
                /\ ret' = None
                /\ UNCHANGED <<db_settings, notifications, scan_history, is_running,
                               stop_event, monitor_thread, jobs, thr,
                               scan, nthreads, nforce, stopped>>
        /\ UNCHANGED evars

\* The operator-facing configuration surface writes the settings row
save_monitoring_settings(s) ==
    /\ fgpc = "idle"
    /\ events < MaxEvents
    /\ events' = events + 1
    /\ db_settings' = s
    /\ UNCHANGED <<notifications, scan_history, current_settings, is_running,
                   stop_event, monitor_thread, jobs, thr, scan, fgpc, ret, call, prev_op,
                   nthreads, nforce, stopped>>
    /\ UNCHANGED evars

\* DatabaseManager.mark_notification_read, from the notifications view; the
\* id of a row is its position in the table
mark_notification_read_all(notification_id) ==
    /\ fgpc = "idle"
    /\ events < MaxEvents
    /\ events' = events + 1
    /\ notifications' = [i \in 1..Len(notifications) |->
                            [notifications[i] EXCEPT !.read = TRUE]]
    /\ UNCHANGED <<db_settings, scan_history, current_settings, is_running,
                   stop_event, monitor_thread, jobs, thr, scan, fgpc, ret, call, prev_op,
                   nthreads, nforce, stopped>>
    /\ UNCHANGED evars
mark_notification_read(notification_id) ==
    /\ fgpc = "idle"
    /\ events < MaxEvents
    /\ events' = events + 1
    /\ notifications' = [i \in 1..Len(notifications) |->
                            IF i = notification_id
                            THEN [notifications[i] EXCEPT !.read = TRUE]
                            ELSE notifications[i]]
    /\ UNCHANGED <<db_settings, scan_history, current_settings, is_running,
                   stop_event, monitor_thread, jobs, thr, scan, fgpc, ret, call, prev_op,
                   nthreads, nforce, stopped>>
    /\ UNCHANGED evars

\* DatabaseManager.dismiss_notification, from the notifications view
dismiss_notification(notification_id) ==
    /\ fgpc = "idle"
    /\ events < MaxEvents
    /\ events' = events + 1
    /\ notifications' = [i \in 1..Len(notifications) |->
                            IF i = notification_id
                            THEN [notifications[i] EXCEPT !.dismissed = TRUE]
                            ELSE notifications[i]]
    /\ UNCHANGED <<db_settings, scan_history, current_settings, is_running,
                   stop_event, monitor_thread, jobs, thr, scan, fgpc, ret, call, prev_op,
                   nthreads, nforce, stopped>>
    /\ UNCHANGED evars

\* The test force_scan_now() makes before it spawns a thread
force_guard_running == is_running
force_guard == IsActive(current_settings)

\* force_scan_now(): a one-shot thread running run_scheduled_scan, if the cached status is Active
force_scan_now ==
    /\ BeginCall("force", NULL)
    /\ fgpc' = "idle"
    /\ IF force_guard
       THEN /\ nforce' = nforce + 1
            /\ thr' = [thr EXCEPT ![MaxEvents + nforce'] = "spawned"]
            /\ ret' = True
       ELSE /\ ret' = False
            /\ UNCHANGED <<nforce, thr>>
    /\ UNCHANGED <<db_settings, notifications, scan_history, current_settings, is_running,
                   stop_event, monitor_thread, jobs, scan, nthreads, stopped>>
    /\ UNCHANGED evars

\* BackgroundMonitor.run_manual_scan(): scans with the cached settings, loading them
\* from the store only when nothing is cached
run_manual_scan ==
    /\ BeginCall("manual", NULL)
    /\ LET s == IF current_settings = NULL THEN get_monitoring_settings ELSE current_settings
       IN  /\ current_settings' = s
           /\ IF s = NULL
              THEN /\ ret' = False
                   /\ fgpc' = "idle"
                   /\ UNCHANGED scan
              ELSE /\ fgpc' = "scan"
                   /\ scan' = [scan EXCEPT ![FG] = [phase |-> "fetch", job |-> 0,
                                                    settings |-> s]]
                   /\ UNCHANGED ret
    /\ UNCHANGED <<db_settings, notifications, scan_history, is_running,
                   stop_event, monitor_thread, jobs, thr, nthreads, nforce, stopped>>
    /\ UNCHANGED evars

\* DashboardView.run_manual_scan(): scans with the settings row of the store
dashboard_manual_scan ==
    /\ BeginCall("dashboard", NULL)
    /\ IF get_monitoring_settings = NULL
       THEN /\ fgpc' = "idle"
            /\ UNCHANGED scan
       ELSE /\ fgpc' = "scan"
            /\ scan' = [scan EXCEPT ![FG] = [phase |-> "fetch", job |-> 0,
                                             settings |-> get_monitoring_settings]]
    /\ UNCHANGED <<db_settings, notifications, scan_history, current_settings, is_running,
                   stop_event, monitor_thread, jobs, thr, ret,
                   nthreads, nforce, stopped>>
    /\ UNCHANGED evars

(* ------------------- BackgroundMonitor: background --------------------- *)
\* The timer: the job's next_run has been reached
Tick ==
    /\ events < MaxEvents
    /\ \E j \in jobs :
         /\ ~j.due
         /\ jobs' = (jobs \ {j}) \cup {[j EXCEPT !.due = TRUE]}
    /\ events' = events + 1
    /\ UNCHANGED <<db_settings, notifications, scan_history, current_settings, is_running,
                   stop_event, monitor_thread, thr, scan, fgpc, ret,
                   call, prev_op, nthreads, nforce, stopped>>
    /\ UNCHANGED evars

\* Job.run after job_func returned: the job gets its next next_run
reschedule(js, id) ==
    {IF j.id = id THEN [j EXCEPT !.due = FALSE, !.ran = TRUE] ELSE j : j \in js}

\* The re-read settings let the scheduled scan go ahead
scan_allowed_any_status(s) == s /= NULL
scan_allowed(s) == s /= NULL /\ s.status = ACTIVE

\* run_scheduled_scan(), up to the request perform_scan sends: re-read the
\* settings; return at once when they are not Active, else enter perform_scan.
\* `back` is where the thread is once run_scheduled_scan has returned.
run_scheduled_scan(c, id, back) ==
    IF ~scan_allowed(get_monitoring_settings)
    THEN /\ thr' = [thr EXCEPT ![c] = back]
         /\ jobs' = reschedule(jobs, id)
         /\ UNCHANGED scan
    ELSE /\ thr' = [thr EXCEPT ![c] = "scan"]
         /\ scan' = [scan EXCEPT ![c] = [phase |-> "fetch", job |-> id,
                                         settings |-> get_monitoring_settings]]
         /\ UNCHANGED jobs

\* One turn of the while loop of _monitor_loop: the stop_event test,
\* schedule.run_pending() and, when no job is due, time.sleep(10)
monitor_loop(t) ==
    /\ thr[t] = "loop"
    /\ IF stop_event
       THEN /\ thr' = [thr EXCEPT ![t] = "dead"]
            /\ UNCHANGED <<jobs, scan>>
       ELSE IF \E j \in jobs : j.due
            THEN \E j \in jobs : j.due /\ run_scheduled_scan(t, j.id, "loop")
            ELSE UNCHANGED <<thr, jobs, scan>>
    /\ UNCHANGED <<db_settings, notifications, scan_history, current_settings, is_running,
                   stop_event, monitor_thread, fgpc, ret, call, prev_op,
                   nthreads, nforce, events, stopped>>
    /\ UNCHANGED evars

\* The thread force_scan_now() spawned gets to run
force_scan_thread(f) ==
    /\ thr[f] = "spawned"
    /\ run_scheduled_scan(f, 0, "dead")
    /\ UNCHANGED <<db_settings, notifications, scan_history, current_settings, is_running,
                   stop_event, monitor_thread, fgpc, ret, call, prev_op,
                   nthreads, nforce, events, stopped>>
    /\ UNCHANGED evars

\* The per-business notifications one perform_scan persisted
scan_alerts(log, o) ==
    IF o.alerts > 0
    THEN create_notification(log, Notification(NEW_BUSINESS, "New Competitor Detected",
                                               <<"A new business has opened nearby">>))
    ELSE log

\* run_scheduled_scan(): the lifecycle notification for the result perform_scan returned
scan_summary_from_five(log, r) ==
    IF r.success
    THEN IF r.new_businesses > 0 \/ r.updated_businesses >= 5
         THEN create_notification(log, Notification(COMPETITOR_ALERT, "Scan Summary",
                  <<"Scan found ", r.new_businesses, " new and ", r.updated_businesses,
                    " updated businesses">>))
         ELSE log
    ELSE create_notification(log, Notification(COMPETITOR_ALERT, "Scan Failed",
             <<"Scheduled scan failed: ", r.error_message>>))
scan_summary(log, r) ==
    IF r.success
    THEN IF r.new_businesses > 0 \/ r.updated_businesses > 5
         THEN create_notification(log, Notification(COMPETITOR_ALERT, "Scan Summary",
                  <<"Scan found ", r.new_businesses, " new and ", r.updated_businesses,
                    " updated businesses">>))
         ELSE log
    ELSE create_notification(log, Notification(COMPETITOR_ALERT, "Scan Failed",
             <<"Scheduled scan failed: ", r.error_message>>))

\* run_scheduled_scan(): the handler of an exception that left perform_scan
scan_error_silent(log) == log
scan_error(log) ==
    create_notification(log, Notification(COMPETITOR_ALERT, "Scan Error",
        <<"Error during scheduled scan: ", "str(e)">>))

\* Where a thread is once run_scheduled_scan has returned from a scan with
\* outcome o: nothing is raised into _monitor_loop, whose loop goes on
after_job_dies(c, o) == IF c \in LoopThreads /\ o.success THEN "loop" ELSE "dead"
after_job(c, o) == IF c \in LoopThreads THEN "loop" ELSE "dead"

\* perform_scan(), from the response on: the notifications and the ScanHistory
\* row are persisted; then the caller's handling of the result
perform_scan(c, o) ==
    /\ scan[c].phase = "fetch"
    /\ scan_history' = Append(scan_history, ScanHistory(o))
    /\ scan' = [scan EXCEPT ![c] = Idle]
    /\ IF c = FG
       THEN /\ notifications' = scan_alerts(notifications, o)
            /\ fgpc' = "idle"
            /\ ret' = IF call.op = "manual" THEN (IF o.success THEN True ELSE False) ELSE ret
            /\ UNCHANGED <<thr, jobs>>
       ELSE /\ notifications' = IF o.raised
                               THEN scan_error(scan_alerts(notifications, o))
                               ELSE scan_summary(scan_alerts(notifications, o), ScanHistory(o))
            /\ thr' = [thr EXCEPT ![c] = after_job(c, o)]
            /\ jobs' = reschedule(jobs, scan[c].job)
            /\ UNCHANGED <<fgpc, ret>>
    /\ UNCHANGED <<db_settings, current_settings, is_running, stop_event,
                   monitor_thread, call, prev_op, nthreads, nforce, events, stopped>>
    /\ UNCHANGED evars

(* ------------------- MonitoringService: the scan engine ---------------- *)
\* Truth value of an Optional[float]: neither None nor 0
truthy(x) == x /= NoNumber /\ x /= 0

\* Some category of the place holds, case folded, one of the strings
category_match(categories, strings) ==
    \E i \in 1..Len(categories), k \in 1..Len(strings) :
        contains(lower(strings[k]), lower(categories[i]))

_should_exclude_case_sensitive(place, settings) ==
    \/ /\ settings.exclude_categories /= <<>>
       /\ \E i \in 1..Len(place.categories), k \in 1..Len(settings.exclude_categories) :
              contains(settings.exclude_categories[k], place.categories[i])
    \/ /\ truthy(settings.min_rating_threshold)
       /\ truthy(place.rating)
       /\ place.rating < settings.min_rating_threshold
_should_exclude_business(place, settings) ==
    \/ /\ settings.exclude_categories /= <<>>
       /\ category_match(place.categories, settings.exclude_categories)
    \/ /\ truthy(settings.min_rating_threshold)
       /\ truthy(place.rating)
       /\ place.rating < settings.min_rating_threshold

_is_competitor_only_on_match(place, settings) ==
    /\ settings.categories_to_monitor /= <<>>
    /\ category_match(place.categories, settings.categories_to_monitor)
_is_potential_competitor(place, settings) ==
    IF /\ settings.categories_to_monitor /= <<>>
       /\ category_match(place.categories, settings.categories_to_monitor)
    THEN TRUE
    ELSE settings.categories_to_monitor = <<>>

\* Business.__post_init__: the two timestamps not given are stamped
post_init_stamps_tomorrow(self, now) ==
    [self EXCEPT !.first_seen = IF @ = NoNumber THEN now + 1 ELSE @,
                 !.last_updated = IF @ = NoNumber THEN now ELSE @]
__post_init__(self, now) ==
    [self EXCEPT !.first_seen = IF @ = NoNumber THEN now ELSE @,
                 !.last_updated = IF @ = NoNumber THEN now ELSE @]

\* Business(...) of the fields of the place
_create_business_from_place(place, settings, now) ==
    __post_init__(
    [fsq_id |-> place.fsq_id, name |-> place.name, categories |-> place.categories,
     location |-> Location(IF place.location.latitude = NoNumber
                           THEN 0 ELSE place.location.latitude,
                           place.location.address),
     rating |-> place.rating, website |-> place.website, phone |-> place.tel,
     verified |-> place.verified, popularity |-> place.popularity,
     first_seen |-> NoNumber, last_updated |-> NoNumber,
     is_competitor |-> _is_potential_competitor(place, settings),
     notes |-> None], now)

\* set(list)
set(list) == {list[i] : i \in 1..Len(list)}

\* `if api_location:` of a dict
nonempty(api_location) ==
    \/ api_location.latitude /= NoNumber
    \/ api_location.address /= None
    \/ api_location.other

\* The Location update_from_api_data builds from a non-empty location dict
new_location(self, api_location) ==
    Location(IF api_location.latitude = NoNumber
             THEN self.location.latitude ELSE api_location.latitude,
             api_location.address)

\* Business.update_from_api_data: its return value
changes_made_rating_only(self, api_data) ==
    self.rating /= api_data.rating
changes_made(self, api_data) ==
    \/ self.name /= api_data.name
    \/ self.rating /= api_data.rating
    \/ self.popularity /= api_data.popularity
    \/ self.verified /= api_data.verified
    \/ self.website /= api_data.website
    \/ self.phone /= api_data.tel
    \/ set(self.categories) /= set(api_data.categories)
    \/ /\ nonempty(api_data.location)
       /\ new_location(self, api_data.location) /= self.location

\* Business.update_from_api_data: the business it leaves
update_reclassifies(self, api_data, now) ==
    [self EXCEPT
       !.name = api_data.name,
       !.rating = api_data.rating,
       !.popularity = api_data.popularity,
       !.verified = api_data.verified,
       !.website = api_data.website,
       !.phone = api_data.tel,
       !.categories = IF set(self.categories) /= set(api_data.categories)
                      THEN api_data.categories ELSE self.categories,
       !.location = IF nonempty(api_data.location)
                    THEN new_location(self, api_data.location) ELSE self.location,
       !.last_updated = IF changes_made(self, api_data) THEN now ELSE self.last_updated,
       !.is_competitor = TRUE]
update_from_api_data(self, api_data, now) ==
    [self EXCEPT
       !.name = api_data.name,
       !.rating = api_data.rating,
       !.popularity = api_data.popularity,
       !.verified = api_data.verified,
       !.website = api_data.website,
       !.phone = api_data.tel,
       !.categories = IF set(self.categories) /= set(api_data.categories)
                      THEN api_data.categories ELSE self.categories,
       !.location = IF nonempty(api_data.location)
                    THEN new_location(self, api_data.location) ELSE self.location,
       !.last_updated = IF changes_made(self, api_data) THEN now ELSE self.last_updated]

\* DatabaseManager.get_business: the rows with that key
get_business_none(fsq_id) == {}
get_business(fsq_id) == {b \in businesses : b.fsq_id = fsq_id}

\* DatabaseManager.save_business: INSERT OR REPLACE on the primary key; the
\* table as it was when the statement raised (ok is what it returns)
save_business(rows, business, ok) ==
    IF ok THEN {b \in rows : b.fsq_id /= business.fsq_id} \cup {business} ELSE rows

\* The notification _generate_notifications builds for one business
BusinessNotification(type, title, message, business) ==
    [type |-> type, title |-> title, message |-> message,
     business_fsq_id |-> business.fsq_id, business_name |-> business.name,
     read |-> FALSE, dismissed |-> FALSE]

\* `if business.is_competitor:` in the loop over the new businesses
IsAnyBusiness(business) == TRUE
IsCompetitor(business) == business.is_competitor

\* _generate_notifications: the table after it
_generate_notifications_on_trending(log, new_businesses, updated_businesses, settings) ==
    LET competitors == IF settings.notify_new_businesses
                       THEN SelectSeq(new_businesses, IsCompetitor) ELSE <<>>
        updated     == IF settings.notify_trending
                       THEN updated_businesses ELSE <<>>
    IN  log
        \o [i \in 1..Len(competitors) |->
              BusinessNotification(NEW_BUSINESS, "New Competitor Detected",
                  <<"A new business '", competitors[i].name,
                    "' has opened nearby in the ", competitors[i].categories,
                    " category.">>, competitors[i])]
        \o [i \in 1..Len(updated) |->
              BusinessNotification(BUSINESS_UPDATED, "Competitor Updated",
                  <<"'", updated[i].name, "' has updated information. Current rating: ",
                    IF truthy(updated[i].rating) THEN updated[i].rating ELSE NoNumber>>,
                  updated[i])]
_generate_notifications(log, new_businesses, updated_businesses, settings) ==
    LET competitors == IF settings.notify_new_businesses
                       THEN SelectSeq(new_businesses, IsCompetitor) ELSE <<>>
        updated     == IF settings.notify_rating_changes
                       THEN updated_businesses ELSE <<>>
    IN  log
        \o [i \in 1..Len(competitors) |->
              BusinessNotification(NEW_BUSINESS, "New Competitor Detected",
                  <<"A new business '", competitors[i].name,
                    "' has opened nearby in the ", competitors[i].categories,
                    " category.">>, competitors[i])]
        \o [i \in 1..Len(updated) |->
              BusinessNotification(BUSINESS_UPDATED, "Competitor Updated",
                  <<"'", updated[i].name, "' has updated information. Current rating: ",
                    IF truthy(updated[i].rating) THEN updated[i].rating ELSE NoNumber>>,
                  updated[i])]

\* DatabaseManager.save_scan_history, called from the finally clause
save_scan_history_on_success(rows, scan_result) ==
    IF scan_result.success THEN Append(rows, scan_result) ELSE rows
save_scan_history(rows, scan_result) == Append(rows, scan_result)

\* Nothing of the scheduler moves while the scan engine is run on its own
svars == <<db_settings, current_settings, is_running, stop_event, monitor_thread,
           jobs, thr, scan, fgpc, ret, call, prev_op, nthreads, nforce, events, stopped>>

\* perform_scan up to the loop: search_nearby returned `places`
search_nearby(settings, places) ==
    /\ eng.pc = "idle"
    /\ Len(calls) < MaxScans
    /\ eng' = [EngIdle EXCEPT !.pc = "loop", !.settings = settings,
                              !.places = places, !.i = 1]
    /\ calls' = Append(calls, [settings |-> settings, places |-> places,
                               before |-> businesses, raised |-> FALSE])
    /\ clock' = clock + 1
    /\ UNCHANGED <<world, businesses, notifications, scan_history>>
    /\ UNCHANGED <<svars, lvars, tvars, edits>>

\* perform_scan when search_nearby raised e: the except and finally clauses
search_raises(settings, e) ==
    /\ eng.pc = "idle"
    /\ Len(calls) < MaxScans
    /\ calls' = Append(calls, [settings |-> settings, places |-> <<>>,
                               before |-> businesses, raised |-> TRUE])
    /\ scan_history' = save_scan_history(scan_history,
           ScanHistory([success |-> FALSE, new_businesses |-> 0, updated_businesses |-> 0,
                        error_message |-> str(e)]))
    /\ clock' = clock + 1
    /\ UNCHANGED <<world, businesses, notifications, eng>>
    /\ UNCHANGED <<svars, lvars, tvars, edits>>

\* One turn of the loop over places: the place at eng.i is dropped, merged
\* into its row, or becomes a new row
process_place ==
    /\ eng.pc = "loop"
    /\ eng.i <= Len(eng.places)
    /\ LET place == eng.places[eng.i] IN
       IF _should_exclude_business(place, eng.settings)
       THEN /\ eng' = [eng EXCEPT !.i = eng.i + 1]
            /\ UNCHANGED <<businesses, clock>>
       ELSE IF get_business(place.fsq_id) /= {}
       THEN LET existing_business == CHOOSE b \in get_business(place.fsq_id) : TRUE IN
            IF changes_made(existing_business, place)
            THEN LET updated == update_from_api_data(existing_business, place, clock) IN
                 \E ok \in world.save_results :
                 /\ eng' = [eng EXCEPT !.i = eng.i + 1,
                               !.updated_businesses = Append(eng.updated_businesses, updated),
                               !.updated_saved = Append(eng.updated_saved, ok)]
                 /\ businesses' = save_business(businesses, updated, ok)
                 /\ clock' = clock + 1
            ELSE /\ eng' = [eng EXCEPT !.i = eng.i + 1]
                 /\ UNCHANGED <<businesses, clock>>
       ELSE LET new_business == _create_business_from_place(place, eng.settings, clock) IN
            \E ok \in world.save_results :
            /\ eng' = [eng EXCEPT !.i = eng.i + 1,
                          !.new_businesses = Append(eng.new_businesses, new_business),
                          !.new_saved = Append(eng.new_saved, ok)]
            /\ businesses' = save_business(businesses, new_business, ok)
            /\ clock' = clock + 1
    /\ UNCHANGED <<world, calls, notifications, scan_history>>
    /\ UNCHANGED <<svars, lvars, tvars, edits>>

\* perform_scan after the loop: the counts, _generate_notifications, and the
\* finally clause saving the ScanHistory row
finish_scan ==
    /\ eng.pc = "loop"
    /\ eng.i > Len(eng.places)
    /\ notifications' = _generate_notifications(notifications, eng.new_businesses,
                                                eng.updated_businesses, eng.settings)
    /\ scan_history' = save_scan_history(scan_history,
           ScanHistory([success |-> TRUE, new_businesses |-> Len(eng.new_businesses),
                        updated_businesses |-> Len(eng.updated_businesses),
                        error_message |-> None]))
    /\ eng' = EngIdle
    /\ UNCHANGED <<world, businesses, clock, calls>>
    /\ UNCHANGED <<svars, lvars, tvars, edits>>

\* DashboardView.toggle_competitor_status on the row of fsq_id, the dashboard
\* having loaded it since the last scan
toggle_competitor_status(fsq_id) ==
    /\ eng.pc = "idle"
    /\ edits < MaxEdits
    /\ get_business(fsq_id) /= {}
    /\ LET business == CHOOSE b \in get_business(fsq_id) : TRUE
           toggled  == [business EXCEPT !.is_competitor = ~business.is_competitor,
                                        !.last_updated = clock]
       IN  \E ok \in world.save_results :
               businesses' = save_business(businesses, toggled, ok)
    /\ clock' = clock + 1
    /\ edits' = edits + 1
    /\ UNCHANGED <<world, eng, calls, notifications, scan_history>>
    /\ UNCHANGED <<svars, lvars, tvars>>

(* ------------------- FoursquareClient: the rate limiter ---------------- *)
\* The entries of RateLimiter.requests that can_make_request keeps at `now`
recent_inclusive(requests, time_window, now) ==
    LET inside(t) == now - t <= time_window IN SelectSeq(requests, inside)
recent(requests, time_window, now) ==
    LET inside(t) == now - t < time_window IN SelectSeq(requests, inside)

\* RateLimiter.can_make_request
can_make_request ==
    /\ rate_limiter /= NoLimiter
    /\ LET kept == recent(rate_limiter.requests, rate_limiter.time_window, time) IN
       /\ rate_limiter' = [rate_limiter EXCEPT !.requests = kept]
       /\ allowed' = IF Len(kept) < rate_limiter.max_requests THEN True ELSE False
    /\ UNCHANGED <<time, recorded, world, businesses, clock, eng, calls, edits,
                   notifications, scan_history, client, sent, tvars>>
    /\ UNCHANGED svars

\* RateLimiter.record_request
record_request ==
    /\ rate_limiter /= NoLimiter
    /\ Len(recorded) < MaxRequests
    /\ rate_limiter' = [rate_limiter EXCEPT !.requests = Append(@, time)]
    /\ recorded' = Append(recorded, time)
    /\ allowed' = None
    /\ UNCHANGED <<time, world, businesses, clock, eng, calls, edits,
                   notifications, scan_history, client, sent, tvars>>
    /\ UNCHANGED svars

\* time.time() moves on by a second
time_passes ==
    /\ rate_limiter /= NoLimiter
    /\ time < MaxTime
    /\ time' = time + 1
    /\ allowed' = None
    /\ UNCHANGED <<rate_limiter, recorded, world, businesses, clock, eng, calls, edits,
                   notifications, scan_history, client, sent, tvars>>
    /\ UNCHANGED svars

(* --------------------------- specification ----------------------------- *)
Next ==
    \/ start
    \/ stop
    \/ stop_join
    \/ restart
    \/ restart_start
    \/ \E s \in MonitoringSettings : update_settings(s)
    \/ \E s \in MonitoringSettings : save_monitoring_settings(s)
    \/ force_scan_now
    \/ run_manual_scan
    \/ dashboard_manual_scan
    \/ Tick
    \/ \E t \in LoopThreads : monitor_loop(t)
    \/ \E f \in ForceThreads : force_scan_thread(f)
    \/ \E c \in Contexts, o \in ScanOutcomes : perform_scan(c, o)

Spec == Init /\ [][Next]_vars

\* The scheduler and the operator marking notifications read or dismissed
NotifyNext ==
    \/ Next
    \/ \E id \in 1..Len(notifications) : mark_notification_read(id)
    \/ \E id \in 1..Len(notifications) : dismiss_notification(id)

NotifySpec == Init /\ [][NotifyNext]_vars

\* The scan engine on its own: perform_scan called by one caller at a time,
\* from an empty businesses table
ScanInit ==
    /\ db_settings = NULL
    /\ notifications = <<>>
    /\ scan_history = <<>>
    /\ current_settings = NULL
    /\ is_running = FALSE
    /\ stop_event = FALSE
    /\ monitor_thread = 0
    /\ jobs = {}
    /\ thr = [t \in Threads |-> "unborn"]
    /\ scan = [c \in Contexts |-> Idle]
    /\ fgpc = "idle"
    /\ ret = None
    /\ call = NoCall
    /\ prev_op = "none"
    /\ nthreads = 0
    /\ nforce = 0
    /\ events = 0
    /\ stopped = {}
    /\ world \in Worlds
    /\ businesses = {}
    /\ clock = 0
    /\ eng = EngIdle
    /\ calls = <<>>
    /\ edits = 0
    /\ rate_limiter = NoLimiter
    /\ time = 0
    /\ allowed = None
    /\ recorded = <<>>
    /\ client = NoClient
    /\ sent = <<>>
    /\ settings_table = <<>>
    /\ last_saved = NULL

ScanNext ==
    \/ \E st \in world.settings, places \in Fetched(world) : search_nearby(st, places)
    \/ \E st \in world.settings, e \in world.raises : search_raises(st, e)
    \/ process_place
    \/ finish_scan
    \/ \E id \in world.toggles : toggle_competitor_status(id)

ScanSpec == ScanInit /\ [][ScanNext]_vars

\* The scan engine where a write of the businesses table can fail, the
\* operator away
SaveInit ==
    /\ db_settings = NULL
    /\ notifications = <<>>
    /\ scan_history = <<>>
    /\ current_settings = NULL
    /\ is_running = FALSE
    /\ stop_event = FALSE
    /\ monitor_thread = 0
    /\ jobs = {}
    /\ thr = [t \in Threads |-> "unborn"]
    /\ scan = [c \in Contexts |-> Idle]
    /\ fgpc = "idle"
    /\ ret = None
    /\ call = NoCall
    /\ prev_op = "none"
    /\ nthreads = 0
    /\ nforce = 0
    /\ events = 0
    /\ stopped = {}
    /\ world \in SaveWorlds
    /\ businesses = {}
    /\ clock = 0
    /\ eng = EngIdle
    /\ calls = <<>>
    /\ edits = 0
    /\ rate_limiter = NoLimiter
    /\ time = 0
    /\ allowed = None
    /\ recorded = <<>>
    /\ client = NoClient
    /\ sent = <<>>
    /\ settings_table = <<>>
    /\ last_saved = NULL

SaveNext ==
    \/ \E st \in world.settings, places \in Fetched(world) : search_nearby(st, places)
    \/ \E st \in world.settings, e \in world.raises : search_raises(st, e)
    \/ process_place
    \/ finish_scan

SaveSpec == SaveInit /\ [][SaveNext]_vars

\* The rate limiter on its own, as constructed, under one caller
LimiterInit ==
    /\ db_settings = NULL
    /\ notifications = <<>>
    /\ scan_history = <<>>
    /\ current_settings = NULL
    /\ is_running = FALSE
    /\ stop_event = FALSE
    /\ monitor_thread = 0
    /\ jobs = {}
    /\ thr = [t \in Threads |-> "unborn"]
    /\ scan = [c \in Contexts |-> Idle]
    /\ fgpc = "idle"
    /\ ret = None
    /\ call = NoCall
    /\ prev_op = "none"
    /\ nthreads = 0
    /\ nforce = 0
    /\ events = 0
    /\ stopped = {}
    /\ world = NoWorld
    /\ businesses = {}
    /\ clock = 0
    /\ eng = EngIdle
    /\ calls = <<>>
    /\ edits = 0
    /\ rate_limiter \in Limiters
    /\ time = 0
    /\ allowed = None
    /\ recorded = <<>>
    /\ client = NoClient
    /\ sent = <<>>
    /\ settings_table = <<>>
    /\ last_saved = NULL

LimiterNext ==
    \/ can_make_request
    \/ record_request
    \/ time_passes

LimiterSpec == LimiterInit /\ [][LimiterNext]_vars

(* ---------------------- the monitoring_settings table ------------------- *)
\* The MonitoringSettings objects a caller can hold: the values, and the id
\* of the row the object was loaded from, 0 for the None of a fresh object
SettingsObjects(table) ==
    {[id |-> i, status |-> s.status, scan_interval_minutes |-> s.scan_interval_minutes] :
        i \in 0..Len(table), s \in MonitoringSettings}

\* The values of a row or of an object
values(row) == [status |-> row.status, scan_interval_minutes |-> row.scan_interval_minutes]

\* SELECT * FROM monitoring_settings ORDER BY id DESC LIMIT 1
DatabaseManager_get_monitoring_settings(table) ==
    IF table = <<>> THEN NULL ELSE values(table[Len(table)])

\* UPDATE ... WHERE id = ? when the object has an id, INSERT of a row with
\* the next id otherwise
DatabaseManager_save_monitoring_settings(settings) ==
    /\ events < MaxEvents
    /\ events' = events + 1
    /\ settings_table' =
          IF settings.id /= 0
          THEN [i \in 1..Len(settings_table) |->
                   IF i = settings.id THEN settings ELSE settings_table[i]]
          ELSE Append(settings_table, [settings EXCEPT !.id = Len(settings_table) + 1])
    /\ last_saved' = values(settings)
    /\ db_settings' = DatabaseManager_get_monitoring_settings(settings_table')
    /\ UNCHANGED <<notifications, scan_history, current_settings, is_running,
                   stop_event, monitor_thread, jobs, thr, scan, fgpc, ret, call, prev_op,
                   nthreads, nforce, stopped>>
    /\ UNCHANGED <<world, businesses, clock, eng, calls, edits, lvars>>

StoreInit ==
    /\ db_settings = NULL
    /\ notifications = <<>>
    /\ scan_history = <<>>
    /\ current_settings = NULL
    /\ is_running = FALSE
    /\ stop_event = FALSE
    /\ monitor_thread = 0
    /\ jobs = {}
    /\ thr = [t \in Threads |-> "unborn"]
    /\ scan = [c \in Contexts |-> Idle]
    /\ fgpc = "idle"
    /\ ret = None
    /\ call = NoCall
    /\ prev_op = "none"
    /\ nthreads = 0
    /\ nforce = 0
    /\ events = 0
    /\ stopped = {}
    /\ world = NoWorld
    /\ businesses = {}
    /\ clock = 0
    /\ eng = EngIdle
    /\ calls = <<>>
    /\ edits = 0
    /\ rate_limiter = NoLimiter
    /\ time = 0
    /\ allowed = None
    /\ recorded = <<>>
    /\ client = NoClient
    /\ sent = <<>>
    /\ settings_table = <<>>
    /\ last_saved = NULL

StoreNext ==
    \E settings \in SettingsObjects(settings_table) :
        DatabaseManager_save_monitoring_settings(settings)

StoreSpec == StoreInit /\ [][StoreNext]_vars

(* --------------------------- the Foursquare client ---------------------- *)
\* time.sleep(60) of _make_request, in seconds
Cooldown == 60

\* place.popularity > 0.7 and [:10] of get_trending_places; popularity in tenths
TrendingThreshold == 7
TrendingLimit == 10

\* A key a dict of the response lacks
Missing == "<missing>"

\* One element of the response's results: a dict with the keys
\* search_nearby reads, or something that is not a dict
Result(fsq_id, name, categories, popularity) ==
    [dict |-> TRUE, fsq_id |-> fsq_id, name |-> name, categories |-> categories,
     popularity |-> popularity]
NotADict ==
    [dict |-> FALSE, fsq_id |-> Missing, name |-> Missing, categories |-> <<>>,
     popularity |-> NoNumber]

\* The JSON of a 200 response: an object with a results key, or an array
Body(results) == [array |-> FALSE, results |-> results]
ArrayBody(elements) == [array |-> TRUE, results |-> elements]

\* What session.get does: a response with a status code, or a RequestException
Answer(status_code) == [raises |-> FALSE, status_code |-> status_code]
RequestException == [raises |-> TRUE, status_code |-> 0]
Answers == {Answer(200), Answer(429), Answer(404), Answer(500), RequestException}

\* The result position i of a response carries: well-formed with each
\* popularity, without an id, without a name, with a category that has a
\* name and one that has none, or not a dict
Popularities == {NoNumber, 0, 7, 8, 9}
ResultsAt(i) ==
    LET id == ToString(i) IN
    {Result(id, "n", <<>>, p) : p \in Popularities}
    \cup {Result(Missing, "n", <<>>, 8), Result(id, Missing, <<>>, 8),
          Result(id, "n", <<[name |-> "Cafe"]>>, 8),
          Result(id, "n", <<[name |-> Missing]>>, 8), NotADict}

\* The lists of n results, and the lists of up to MaxLen
RECURSIVE ResultLists(_)
ResultLists(n) ==
    IF n = 0 THEN {<<>>}
    ELSE {Append(rs, r) : rs \in ResultLists(n - 1), r \in ResultsAt(n)}
ShortLists == UNION {ResultLists(n) : n \in 0..MaxLen}

\* The lists of more results than get_trending_places returns, all trending
RECURSIVE TrendingLists(_)
TrendingLists(n) ==
    IF n = 0 THEN {<<>>}
    ELSE {Append(rs, Result(ToString(n), "n", <<>>, p)) :
             rs \in TrendingLists(n - 1), p \in {8, 9}}
LongLists == TrendingLists(MaxResults)

\* The limiters of the client: the window is longer than the cool-down
ClientLimiters == {RateLimiter(n, w * Cooldown) : n \in 1..2, w \in 2..3}

\* What one behaviour of the client is run against: the limiter it holds,
\* the body of the 200 responses and the answers of the API.  Every answer
\* meets one body under each limiter; every body meets the answer 200.
ClientWorlds ==
    {[limiter |-> l,
      body |-> Body(<<Result("1", "n", <<>>, 9), Result("2", "n", <<>>, 8)>>),
      statuses |-> Answers] : l \in ClientLimiters}
    \cup {[limiter |-> RateLimiter(2, 2 * Cooldown), body |-> b, statuses |-> {Answer(200)}] :
             b \in {Body(rs) : rs \in ShortLists \cup LongLists}
                   \cup {ArrayBody(<<>>), ArrayBody(<<NotADict>>)}}

\* What a call of the client returns or raises
Pending == [kind |-> "pending", places |-> <<>>, error |-> ""]
ReturnsNone == [kind |-> "None", places |-> <<>>, error |-> ""]
ReturnsList(places) == [kind |-> "list", places |-> places, error |-> ""]
ReturnsPlace(place) == [kind |-> "place", places |-> <<place>>, error |-> ""]
Raises(e) == [kind |-> "raised", places |-> <<>>, error |-> e.type]

\* The recursion of _make_request exhausts the interpreter's stack
RecursionError == [type |-> "RecursionError", args |-> <<"maximum recursion depth exceeded">>]

\* The 200 response of _make_request as `if not response` sees it
falsy(body) == body.array /\ body.results = <<>>

\* PlaceData(...) of a result raises KeyError: result['fsq_id'],
\* result['name'], or cat['name'] of one of its categories
KeyError(result) ==
    \/ result.fsq_id = Missing
    \/ result.name = Missing
    \/ \E i \in 1..Len(result.categories) : result.categories[i].name = Missing

\* PlaceData(...) of a result that has the keys
PlaceData(result) ==
    [fsq_id |-> result.fsq_id, name |-> result.name,
     categories |-> [i \in 1..Len(result.categories) |-> result.categories[i].name],
     popularity |-> result.popularity]

\* The loop of search_nearby over the results: the places, in order, of the
\* results that raise no KeyError
RECURSIVE places_of(_)
places_of(results) ==
    IF results = <<>> THEN <<>>
    ELSE IF KeyError(Head(results)) THEN places_of(Tail(results))
    ELSE <<PlaceData(Head(results))>> \o places_of(Tail(results))

\* search_nearby after _make_request returned: response is None or the body
search_nearby_returns(response_is_none, body) ==
    IF response_is_none \/ falsy(body) THEN ReturnsList(<<>>)
    ELSE IF body.array THEN Raises(AttributeError)
    ELSE IF \E i \in 1..Len(body.results) : ~body.results[i].dict THEN Raises(TypeError)
    ELSE ReturnsList(places_of(body.results))

\* get_place_details after _make_request returned; the response to a details
\* request is the first result of the body, or an empty object
get_place_details_returns(response_is_none, body) ==
    IF response_is_none \/ body.results = <<>> THEN ReturnsNone
    ELSE IF body.array \/ ~body.results[1].dict THEN Raises(TypeError)
    ELSE IF KeyError(body.results[1]) THEN ReturnsNone
    ELSE ReturnsPlace(PlaceData(body.results[1]))

\* place.popularity and place.popularity > 0.7
is_trending_from_threshold(place) ==
    place.popularity /= NoNumber /\ place.popularity /= 0 /\ place.popularity >= TrendingThreshold
is_trending(place) ==
    place.popularity /= NoNumber /\ place.popularity /= 0 /\ place.popularity > TrendingThreshold

\* sorted(places, key=popularity, reverse=True): places of equal popularity
\* keep their order
RECURSIVE insert(_, _)
insert(place, sorted) ==
    IF sorted = <<>> THEN <<place>>
    ELSE IF Head(sorted).popularity >= place.popularity
         THEN <<Head(sorted)>> \o insert(place, Tail(sorted))
         ELSE <<place>> \o sorted
RECURSIVE sorted_by_popularity(_)
sorted_by_popularity(places) ==
    IF places = <<>> THEN <<>>
    ELSE insert(places[Len(places)], sorted_by_popularity(SubSeq(places, 1, Len(places) - 1)))

\* get_trending_places after search_nearby returned
get_trending_places_returns(searched) ==
    IF searched.kind = "raised" THEN searched
    ELSE LET trending == SelectSeq(searched.places, is_trending)
             ordered == sorted_by_popularity(trending)
         IN ReturnsList(SubSeq(ordered, 1, IF Len(ordered) < TrendingLimit
                                           THEN Len(ordered) ELSE TrendingLimit))

\* What the call under way returns once _make_request has returned
returns(op, response_is_none, body) ==
    IF op = "get_place_details" THEN get_place_details_returns(response_is_none, body)
    ELSE IF op = "search_nearby" THEN search_nearby_returns(response_is_none, body)
    ELSE get_trending_places_returns(search_nearby_returns(response_is_none, body))

\* The branch of _make_request a status code takes
branch_retrying_errors(status_code) ==
    IF status_code = 200 THEN "json"
    ELSE "retry"
branch(status_code) ==
    IF status_code = 200 THEN "json"
    ELSE IF status_code = 429 THEN "retry"
    ELSE "None"

\* self._make_request(endpoint, params) of the 429 branch: one frame deeper,
\* one cool-down later, the same endpoint and params
retry_without_params(frame) ==
    [frame EXCEPT !.attempts = @ + 1, !.retry_sleeps = @ + 1, !.params = ""]
retry(frame) ==
    [frame EXCEPT !.attempts = @ + 1, !.retry_sleeps = @ + 1]

ClientOps == {"search_nearby", "get_place_details", "get_trending_places"}

\* search_nearby, get_place_details or get_trending_places is called and
\* enters _make_request
call_client(op) ==
    /\ client.pc = "idle"
    /\ client.ncalls < MaxCalls
    /\ client' = [client EXCEPT
                    !.pc = "request", !.op = op,
                    !.endpoint = IF op = "get_place_details" THEN "1" ELSE "search",
                    !.params = IF op = "get_place_details" THEN "fields"
                               ELSE "ll,radius,limit,fields",
                    !.attempts = 0, !.gate_sleeps = 0, !.retry_sleeps = 0,
                    !.ncalls = @ + 1, !.result = Pending]
    /\ UNCHANGED <<rate_limiter, time, allowed, recorded, sent, world, businesses, clock,
                   eng, calls, edits, notifications, scan_history, tvars>>
    /\ UNCHANGED svars

\* One frame of _make_request: the gate and its sleep, session.get and its
\* answer, record_request, and the branch on the status code, up to the
\* return or to the recursive call after the sleep.  A frame deeper than the
\* interpreter allows raises RecursionError.
_make_request(answer) ==
    /\ client.pc = "request"
    /\ answer \in client.statuses
    /\ LET kept == recent(rate_limiter.requests, rate_limiter.time_window, time)
           ok   == Len(kept) < rate_limiter.max_requests
           at   == IF ok THEN time ELSE time + Cooldown
           gated == [client EXCEPT !.gate_sleeps = IF ok THEN @ ELSE @ + 1]
           request == [endpoint |-> client.endpoint, params |-> client.params,
                       at |-> at, answer |-> answer, call |-> client.ncalls,
                       gate_open |-> ok]
           done(frame, result) == [frame EXCEPT !.pc = "idle", !.result = result]
       IN
       /\ sent' = Append(sent, request)
       /\ allowed' = None
       /\ IF answer.raises
          THEN /\ rate_limiter' = [rate_limiter EXCEPT !.requests = kept]
               /\ recorded' = recorded
               /\ time' = at
               /\ client' = done([gated EXCEPT !.attempts = @ + 1],
                                 returns(client.op, TRUE, client.body))
          ELSE /\ rate_limiter' = [rate_limiter EXCEPT !.requests = Append(kept, at)]
               /\ recorded' = Append(recorded, at)
               /\ CASE branch(answer.status_code) = "json" ->
                         /\ time' = at
                         /\ client' = done([gated EXCEPT !.attempts = @ + 1],
                                           returns(client.op, FALSE, client.body))
                    [] branch(answer.status_code) = "retry" ->
                         /\ time' = at + Cooldown
                         /\ client' = IF client.attempts + 1 < MaxAttempts
                                      THEN retry(gated)
                                      ELSE done(retry(gated), Raises(RecursionError))
                    [] OTHER ->
                         /\ time' = at
                         /\ client' = done([gated EXCEPT !.attempts = @ + 1],
                                           returns(client.op, TRUE, client.body))
    /\ UNCHANGED <<world, businesses, clock, eng, calls, edits, notifications,
                   scan_history, tvars>>
    /\ UNCHANGED svars

ClientInit ==
    /\ db_settings = NULL
    /\ notifications = <<>>
    /\ scan_history = <<>>
    /\ current_settings = NULL
    /\ is_running = FALSE
    /\ stop_event = FALSE
    /\ monitor_thread = 0
    /\ jobs = {}
    /\ thr = [t \in Threads |-> "unborn"]
    /\ scan = [c \in Contexts |-> Idle]
    /\ fgpc = "idle"
    /\ ret = None
    /\ call = NoCall
    /\ prev_op = "none"
    /\ nthreads = 0
    /\ nforce = 0
    /\ events = 0
    /\ stopped = {}
    /\ world = NoWorld
    /\ businesses = {}
    /\ clock = 0
    /\ eng = EngIdle
    /\ calls = <<>>
    /\ edits = 0
    /\ \E w \in ClientWorlds :
          /\ rate_limiter = w.limiter
          /\ client = [NoClient EXCEPT !.body = w.body, !.statuses = w.statuses]
    /\ time = 0
    /\ allowed = None
    /\ recorded = <<>>
    /\ sent = <<>>
    /\ settings_table = <<>>
    /\ last_saved = NULL

ClientNext ==
    \/ \E op \in ClientOps : call_client(op)
    \/ \E answer \in Answers : _make_request(answer)

ClientSpec == ClientInit /\ [][ClientNext]_vars

(* ------------------------------- claims -------------------------------- *)
Scanning == {c \in Contexts : InPerformScan(c)}

AliveLoops == {t \in LoopThreads : is_alive(t)}

UpdateOps == {"update", "update_stop", "update_restart"}

\* The foreground call that began last has returned and nothing has happened since
Returned(ops) == fgpc = "idle" /\ call.op \in ops /\ events = call.n

\* This step is a call of start(): directly, or as the second half of restart()
StartStep ==
    \/ call'.n /= call.n /\ call'.op = "start"
    \/ fgpc = "restart_sleep" /\ fgpc' = "idle"

IsStartStop(n) == n \in {Started, Stopped}

\* The "Monitoring Started" / "Monitoring Stopped" rows written since the call began
LifecycleSince(log, k) == SelectSeq(SubSeq(log, k + 1, Len(log)), IsStartStop)

\* C1: at most one scan executes at a time: no two contexts (loop threads,
\* force_scan_now threads, the foreground's manual scan) are inside perform_scan
\* in the same state.
C1_OneScanAtATime == Cardinality(Scanning) <= 1

\* C2: scan ordering: a scheduled scan (one a _monitor_loop thread runs on a
\* timer fire) does not perform its first step while an earlier scheduled scan
\* has not yet written its ScanHistory row, so no two loop threads are inside
\* perform_scan in the same state.
C2_ScheduledScansInOrder == Cardinality(Scanning \cap LoopThreads) <= 1

\* C3: at most one _monitor_loop thread is alive in every reachable state,
\* whatever start(), stop(), restart() and update_settings() calls were made.
C3_OneLoopThread == Cardinality(AliveLoops) <= 1

\* C4: a loop thread that was the monitor thread when stop() raised the stop
\* signal starts no further scheduled scan, also when the join timed out and
\* start() was called again.
C4_StoppedLoopNotReentered ==
    [][\A t \in stopped : ~(thr[t] = "loop" /\ thr'[t] = "scan")]_vars

\* C5: start() on a Stopped scheduler whose store holds no settings, or settings
\* that are Paused or Inactive, returns failure and leaves the scheduler Stopped:
\* no timer job, no new thread, no notification, stop signal untouched.
C5_StartRefused ==
    [][(StartStep /\ ~is_running /\ ~IsActive(db_settings))
        => /\ ret' = False
           /\ ~is_running'
           /\ jobs' = {}
           /\ UNCHANGED <<jobs, thr, nthreads, monitor_thread, stop_event, notifications>>]_vars

C5_Witness ==
    /\ Returned({"start"})
    /\ ~call.run0
    /\ db_settings /= NULL /\ db_settings.status = PAUSED
    /\ ret = False
    /\ ~is_running

\* C6: from Stopped with Active settings and an empty notification log, start()
\* followed by stop(), with no scan under way, leaves exactly the two rows
\* "Monitoring Started", "Monitoring Stopped" in that order, and the scheduler
\* Stopped.
C6_StartThenStop ==
    [][(/\ fgpc = "stop_join" /\ fgpc' = "idle"
        /\ call.op = "stop" /\ prev_op = "start"
        /\ call.log0 = 1 /\ notifications[1] = Started
        /\ call.quiet0)
        => /\ notifications' = <<Started, Stopped>>
           /\ ~is_running']_vars

C6_Witness ==
    /\ Returned({"stop"})
    /\ prev_op = "start" /\ call.run0 /\ call.quiet0 /\ call.log0 = 1
    /\ notifications = <<Started, Stopped>>
    /\ ~is_running

\* C7: stop() on a scheduler that is already Stopped returns at once and changes
\* nothing: state, stop signal, timer jobs, threads, notifications, store.
C7_StopWhenStopped ==
    [][(call'.n /= call.n /\ call'.op = "stop" /\ ~is_running)
        => /\ fgpc' = "idle"
           /\ UNCHANGED <<is_running, stop_event, jobs, thr, monitor_thread, notifications,
                          scan_history, scan, current_settings, db_settings>>]_vars

C7_Witness ==
    /\ Returned({"stop"})
    /\ ~call.run0
    /\ ~is_running
    /\ stopped /= {}

\* C8: restart() on a Running scheduler stops, then starts: when the stored
\* settings are Active it has written "Monitoring Stopped" and then "Monitoring
\* Started", returns success and the scheduler is Running; when they are absent
\* or not Active it has written "Monitoring Stopped" only, returns failure and
\* the scheduler is Stopped.
C8_Restart ==
    [][(fgpc = "restart_sleep" /\ fgpc' = "idle" /\ call.op = "restart" /\ call.run0)
        => IF IsActive(db_settings)
           THEN /\ LifecycleSince(notifications', call.log0) = <<Stopped, Started>>
                /\ is_running'
                /\ ret' = True
           ELSE /\ LifecycleSince(notifications', call.log0) = <<Stopped>>
                /\ ~is_running'
                /\ ret' = False]_vars

C8_Witness ==
    /\ Returned({"restart"})
    /\ call.run0
    /\ is_running
    /\ ret = True
    /\ LifecycleSince(notifications, call.log0) = <<Stopped, Started>>

\* update_settings(s) was called on a Running scheduler with s Active and an
\* interval other than the cached one, and has returned
UpdatedInterval ==
    /\ Returned(UpdateOps)
    /\ call.run0
    /\ call.arg.status = ACTIVE
    /\ call.arg.scan_interval_minutes /= call.old0.scan_interval_minutes

\* C9 as stated: after update_settings(s) on a Running scheduler with s Active
\* and a new interval, the scheduler is Running with exactly one timer job and
\* that job's period is s.scanIntervalMinutes, whatever the store holds.
C9_PeriodOfArgument ==
    UpdatedInterval
        => /\ is_running
           /\ \E j \in jobs : jobs = {j} /\ j.interval = call.arg.scan_interval_minutes

\* C9 amended: after that call the scheduler has been restarted from the store:
\* when the store holds Active settings it is Running with exactly one timer job
\* whose period is the stored scanIntervalMinutes; when it holds none, or settings
\* that are not Active, it is Stopped with no timer job.
C9_PeriodOfStore ==
    UpdatedInterval
        => IF IsActive(db_settings)
           THEN /\ is_running
                /\ \E j \in jobs : jobs = {j} /\ j.interval = db_settings.scan_interval_minutes
           ELSE ~is_running /\ jobs = {}

C9_Witness ==
    /\ UpdatedInterval
    /\ call.op = "update_restart"
    /\ db_settings = call.arg
    /\ is_running
    /\ \E j \in jobs : jobs = {j} /\ j.interval = call.arg.scan_interval_minutes

\* C10: update_settings(s) on a Running scheduler whose cached status is Active,
\* with s Paused or Inactive, stops it: afterwards the scheduler is Stopped, no
\* timer job is registered and "Monitoring Stopped" has been appended.
C10_UpdateStops ==
    (/\ Returned(UpdateOps)
     /\ call.run0
     /\ call.old0.status = ACTIVE
     /\ call.arg.status \in {PAUSED, INACTIVE})
        => /\ ~is_running
           /\ jobs = {}
           /\ LifecycleSince(notifications, call.log0) = <<Stopped>>

C10_Witness ==
    /\ Returned({"update_stop"})
    /\ call.run0
    /\ call.old0.status = ACTIVE
    /\ call.arg.status = INACTIVE
    /\ ~is_running
    /\ notifications[Len(notifications)] = Stopped

\* This step is a call of update_settings() with argument call'.arg
UpdateStep == call'.n /= call.n /\ call'.op \in UpdateOps

\* C11: update_settings(s) on a Stopped scheduler, or on a Running one whose
\* cached interval and status both equal those of s, only caches s: the call is
\* over in that step, and scheduler state, stop signal, timer jobs, threads,
\* scans, notifications, scan history and the settings row all stay as they were.
C11_UpdateCachesOnly ==
    [][(/\ UpdateStep
        /\ \/ ~is_running
           \/ /\ call'.arg.scan_interval_minutes = current_settings.scan_interval_minutes
              /\ call'.arg.status = current_settings.status)
        => /\ current_settings' = call'.arg
           /\ fgpc' = "idle"
           /\ UNCHANGED <<is_running, stop_event, monitor_thread, jobs, thr, scan,
                          notifications, scan_history, db_settings, nthreads>>]_vars

C11_Witness ==
    /\ Returned(UpdateOps)
    /\ ~call.run0
    /\ call.old0 /= NULL
    /\ call.old0.status = PAUSED
    /\ call.arg.status = ACTIVE
    /\ current_settings = call.arg
    /\ ~is_running
    /\ jobs = {}

\* This step is a call of force_scan_now()
ForceStep == call'.n /= call.n /\ call'.op = "force"

\* This step is force thread f getting to run run_scheduled_scan
ForceRuns(f) == thr[f] = "spawned" /\ thr'[f] /= "spawned"

\* This step is force thread f coming back from perform_scan
ForceScanned(f) == scan[f].phase = "fetch" /\ scan'[f].phase = "idle"

\* Scheduler state, stop signal, timer jobs and loop threads stay as they were
SchedulerUntouched ==
    /\ UNCHANGED <<is_running, stop_event, monitor_thread, jobs, nthreads>>
    /\ \A t \in LoopThreads : thr'[t] = thr[t]

\* C12 as stated: force_scan_now() reports success exactly when the monitoring
\* status is Active and exactly when a scan is performed: it returns True and
\* spawns a thread iff the status is Active, the spawned thread enters
\* perform_scan when it runs, and none of it touches the scheduler.
C12_SuccessMeansScan ==
    [][/\ ForceStep
          => /\ ret' = True <=> IsActive(current_settings)
             /\ ret' = True <=> \E f \in ForceThreads : thr[f] = "unborn" /\ thr'[f] = "spawned"
             /\ SchedulerUntouched
       /\ \A f \in ForceThreads :
             /\ ForceRuns(f) => thr'[f] = "scan" /\ SchedulerUntouched
             /\ ForceScanned(f) => SchedulerUntouched]_vars

\* C12 amended: force_scan_now() returns True and spawns a thread iff the cached
\* status is Active; that thread enters perform_scan iff the settings row of the
\* store is Active when it runs, and otherwise ends without a scan, a scan
\* history row or a notification; none of it touches the scheduler.
C12_SuccessMeansThread ==
    [][/\ ForceStep
          => /\ ret' = True <=> IsActive(current_settings)
             /\ ret' = True <=> \E f \in ForceThreads : thr[f] = "unborn" /\ thr'[f] = "spawned"
             /\ SchedulerUntouched
       /\ \A f \in ForceThreads :
             /\ ForceRuns(f)
                  => /\ thr'[f] = (IF IsActive(db_settings) THEN "scan" ELSE "dead")
                     /\ IsActive(db_settings) <=> scan'[f].phase = "fetch"
                     /\ UNCHANGED <<scan_history, notifications>>
                     /\ SchedulerUntouched
             /\ ForceScanned(f) => SchedulerUntouched]_vars

C12_Witness ==
    /\ Returned({"force"})
    /\ ret = True
    /\ IsActive(current_settings)
    /\ ~IsActive(db_settings)
    /\ scan_history = <<>>
    /\ \E f \in ForceThreads : thr[f] = "dead"

\* This step is thread c coming back from the perform_scan run_scheduled_scan called
ScheduledScanEnds(c) == scan[c].phase = "fetch" /\ scan'[c].phase = "idle"

\* This step is loop thread t running a due job: run_scheduled_scan either
\* enters perform_scan, or returns at once and the job is rescheduled (a job is
\* also rescheduled when another thread comes back from its scan)
TimerFires(t) ==
    /\ thr[t] = "loop"
    /\ ~stop_event
    /\ \E j \in jobs :
         /\ j.due
         /\ \/ thr'[t] = "scan"
            \/ /\ jobs' = reschedule(jobs, j.id)
               /\ \A c \in Threads : ~ScheduledScanEnds(c)

\* C13: a timer fire whose re-read of the store finds no settings, or a status
\* other than Active, aborts silently: the thread does not enter perform_scan
\* (no request to the source, no Business written) and no scan history row and
\* no notification is written.
C13_InactiveFireAborts ==
    [][\A t \in LoopThreads :
         (TimerFires(t) /\ (db_settings = NULL \/ db_settings.status /= ACTIVE))
            => /\ thr'[t] = "loop"
               /\ UNCHANGED <<scan, scan_history, notifications>>]_vars

C13_Witness ==
    /\ is_running
    /\ db_settings /= NULL /\ db_settings.status = PAUSED
    /\ thr[monitor_thread] = "loop"
    /\ \E j \in jobs : j.ran /\ ~j.due
    /\ scan_history = <<>>
    /\ notifications = <<Started>>

\* The notification rows this step appended
Appended == SubSeq(notifications', Len(notifications) + 1, Len(notifications'))

\* The scan history row this step appended
Recorded == scan_history'[Len(scan_history')]

IsScanSummary(n) == n.title = "Scan Summary"
IsScanFailed(n)  == n.title = "Scan Failed"
IsScanError(n)   == n.title = "Scan Error"

\* C14: a scheduled scan that succeeded is followed by exactly one "Scan
\* Summary" notification when it found at least one new business or more than
\* five updated ones, and by none otherwise (none for 0 new and 5 updated).
C14_SummaryThreshold ==
    [][\A c \in Threads :
         (ScheduledScanEnds(c) /\ Recorded.success)
            => Len(SelectSeq(Appended, IsScanSummary))
                 = (IF Recorded.new_businesses > 0 \/ Recorded.updated_businesses > 5
                    THEN 1 ELSE 0)]_vars

C14_Witness ==
    /\ is_running
    /\ IsActive(db_settings)
    /\ thr[monitor_thread] = "loop"
    /\ \E j \in jobs : j.ran /\ ~j.due
    /\ Len(scan_history) = 1
    /\ scan_history[1].success
    /\ scan_history[1].new_businesses = 0
    /\ scan_history[1].updated_businesses = 5
    /\ notifications = <<Started>>

\* C15: a scheduled scan that returned a record with success = False is
\* followed by exactly one "Scan Failed" notification whose message contains the
\* record's error text; one whose exception left perform_scan (its record has
\* no error text) by exactly one "Scan Error" notification; in both cases
\* nothing is raised out of run_scheduled_scan: a loop thread is back in its loop.
C15_FailureNotified ==
    [][\A c \in Threads :
         (ScheduledScanEnds(c) /\ ~Recorded.success)
            => /\ Len(SelectSeq(Appended, IsScanSummary)) = 0
               /\ IF Recorded.error_message /= None
                  THEN /\ Len(SelectSeq(Appended, IsScanError)) = 0
                       /\ \E n \in {Appended[i] : i \in 1..Len(Appended)} :
                             /\ SelectSeq(Appended, IsScanFailed) = <<n>>
                             /\ \E i \in 1..Len(n.message) :
                                   n.message[i] = Recorded.error_message
                  ELSE /\ Len(SelectSeq(Appended, IsScanFailed)) = 0
                       /\ Len(SelectSeq(Appended, IsScanError)) = 1
               /\ c \in LoopThreads => thr'[c] = "loop"]_vars

C15_Witness ==
    /\ is_running
    /\ thr[monitor_thread] = "loop"
    /\ \E j \in jobs : j.ran /\ ~j.due
    /\ Len(scan_history) = 1
    /\ ~scan_history[1].success
    /\ scan_history[1].error_message = None
    /\ Len(notifications) = 2
    /\ notifications[1] = Started
    /\ notifications[2].title = "Scan Error"

\* C16: a failed scheduled scan does not end the loop: the loop thread whose
\* scan saved an unsuccessful record, or raised, is back in its loop, and a loop
\* thread that finds a due job while the stop signal is clear and the stored
\* status is Active invokes a scan, whatever the scans before it did.
C16_LoopSurvivesFailure ==
    [][\A t \in LoopThreads :
         /\ (ScheduledScanEnds(t) /\ ~Recorded.success) => thr'[t] = "loop"
         /\ (TimerFires(t) /\ IsActive(db_settings))
               => thr'[t] = "scan" /\ scan'[t].phase = "fetch"]_vars

C16_Witness ==
    /\ is_running
    /\ IsActive(db_settings)
    /\ thr[monitor_thread] = "scan"
    /\ \E j \in jobs : j.ran /\ j.due
    /\ Len(scan_history) = 1
    /\ ~scan_history[1].success
    /\ Len(notifications) = 2
    /\ notifications[2].title \in {"Scan Failed", "Scan Error"}

(* ------------------------ claims: the scan engine ---------------------- *)
\* The scan engine is between two calls of perform_scan
EngineIdle == eng.pc = "idle"

\* C17: every call of perform_scan appends exactly one scan history row: a
\* call that has returned has its row, a call under way has none yet; the row of
\* a call that failed has success = False and an error text, the row of a call
\* that completed has success = True.
C17_OneRecordPerScan ==
    /\ Len(scan_history) = (IF EngineIdle THEN Len(calls) ELSE Len(calls) - 1)
    /\ \A k \in 1..Len(scan_history) :
         IF calls[k].raised
         THEN ~scan_history[k].success /\ scan_history[k].error_message /= None
         ELSE scan_history[k].success

C17_Witness ==
    /\ EngineIdle
    /\ Len(calls) = 2
    /\ calls[1].raised
    /\ ~calls[2].raised
    /\ Len(scan_history) = 2
    /\ ~scan_history[1].success
    /\ scan_history[2].success

\* The last two calls of perform_scan both completed, with the same settings
\* and the same list of places
SameScanTwice ==
    /\ EngineIdle
    /\ Len(calls) >= 2
    /\ LET n == Len(calls) IN
       /\ ~calls[n].raised /\ ~calls[n - 1].raised
       /\ calls[n].places = calls[n - 1].places
       /\ calls[n].settings = calls[n - 1].settings

\* C18: scan idempotence: when perform_scan is run twice in a row with the
\* same list of places (identifiers may repeat in it) and the same settings,
\* the second run counts 0 new and 0 updated businesses and leaves every row
\* of the businesses table as it was.
C18_SecondScanChangesNothing ==
    SameScanTwice
        => /\ scan_history[Len(calls)].new_businesses = 0
           /\ scan_history[Len(calls)].updated_businesses = 0
           /\ businesses = calls[Len(calls)].before

\* Idempotence for lists in which every identifier occurs once
IdempotentOnDistinctIds ==
    (SameScanTwice /\ \A i, k \in 1..Len(calls[Len(calls)].places) :
         i /= k => calls[Len(calls)].places[i].fsq_id /= calls[Len(calls)].places[k].fsq_id)
        => /\ scan_history[Len(calls)].new_businesses = 0
           /\ scan_history[Len(calls)].updated_businesses = 0
           /\ businesses = calls[Len(calls)].before

\* This step is the loop of perform_scan meeting a place that passes the
\* exclusion filter and whose identifier has a row
MergeStep ==
    /\ eng.pc = "loop"
    /\ eng'.pc = "loop"
    /\ eng'.i = eng.i + 1
    /\ ~_should_exclude_business(eng.places[eng.i], eng.settings)
    /\ \E b \in businesses : b.fsq_id = eng.places[eng.i].fsq_id

\* The row of the place of this step, before and after it
RowBefore == CHOOSE b \in businesses : b.fsq_id = eng.places[eng.i].fsq_id
RowAfter  == CHOOSE b \in businesses' : b.fsq_id = eng.places[eng.i].fsq_id

\* The fields other than the location differ between row b and place p
FieldsDiffer(b, p) ==
    \/ b.name /= p.name \/ b.rating /= p.rating \/ b.popularity /= p.popularity
    \/ b.verified /= p.verified \/ b.website /= p.website \/ b.phone /= p.tel
    \/ {b.categories[i] : i \in 1..Len(b.categories)}
          /= {p.categories[i] : i \in 1..Len(p.categories)}

\* The fields other than the location are equal in row b and place p
FieldsEqual(b, p) == ~FieldsDiffer(b, p)

\* The location a row created from place p gets
FetchedLocation(p) ==
    [latitude |-> IF p.location.latitude = NoNumber THEN 0 ELSE p.location.latitude,
     address |-> p.location.address]

\* The location of place p read against row b: an empty location dict is no
\* location at all, and a dict without coordinates keeps those of the row
LocationAgainst(b, p) ==
    IF p.location = EmptyLocation
    THEN b.location
    ELSE [latitude |-> IF p.location.latitude = NoNumber
                       THEN b.location.latitude ELSE p.location.latitude,
          address |-> p.location.address]

\* This step counts one updated business, writes its row with last_updated
\* advanced, and touches no other row
CountedAndPersisted ==
    /\ eng'.updated_businesses = Append(eng.updated_businesses, RowAfter)
    /\ eng'.new_businesses = eng.new_businesses
    /\ businesses' = (businesses \ {RowBefore}) \cup {RowAfter}
    /\ RowAfter.last_updated > RowBefore.last_updated

\* This step counts nothing and leaves the table as it was
NothingMerged ==
    /\ eng'.updated_businesses = eng.updated_businesses
    /\ eng'.new_businesses = eng.new_businesses
    /\ businesses' = businesses

\* C19 as stated: a fetched place that matches a row is counted as updated and
\* written back iff one of name, rating, popularity, verification, website,
\* phone, categories (as sets) or location differs from the row; then the row's
\* fields equal the fetched ones and last_updated has advanced; otherwise the
\* row, last_updated included, is unchanged.
C19_MergeIffFieldDiffers ==
    [][MergeStep =>
         IF FieldsDiffer(RowBefore, eng.places[eng.i])
               \/ FetchedLocation(eng.places[eng.i]) /= RowBefore.location
         THEN /\ CountedAndPersisted
              /\ FieldsEqual(RowAfter, eng.places[eng.i])
              /\ RowAfter.location = FetchedLocation(eng.places[eng.i])
         ELSE NothingMerged]_vars

\* C19 amended: the location takes part only when the fetched location dict is
\* not empty, and is then the dict with the row's coordinates filled in where
\* the dict has none.
C19_MergeIffComparedFieldDiffers ==
    [][MergeStep =>
         IF FieldsDiffer(RowBefore, eng.places[eng.i])
               \/ LocationAgainst(RowBefore, eng.places[eng.i]) /= RowBefore.location
         THEN /\ CountedAndPersisted
              /\ FieldsEqual(RowAfter, eng.places[eng.i])
              /\ RowAfter.location = LocationAgainst(RowBefore, eng.places[eng.i])
         ELSE NothingMerged]_vars

C19_Witness ==
    /\ EngineIdle
    /\ Len(calls) = 2
    /\ scan_history[2].updated_businesses = 1
    /\ \E b \in businesses :
         /\ b.fsq_id = "a"
         /\ b.location = Location(10, None)
         /\ b.last_updated > b.first_seen

\* C20: first_seen is set when the row is created and never changes: every
\* step keeps every row, with the first_seen it had, and a row that appears
\* carries the time of its creation.
C20_FirstSeenImmutable ==
    [][/\ \A b \in businesses :
            \E a \in businesses' : a.fsq_id = b.fsq_id /\ a.first_seen = b.first_seen
       /\ \A a \in businesses' :
            (\A b \in businesses : b.fsq_id /= a.fsq_id) => a.first_seen = clock]_vars

C20_Witness ==
    /\ EngineIdle
    /\ Len(calls) = 2
    /\ \E b \in businesses : b.first_seen = 1 /\ b.last_updated >= 3

\* C21: every row of the businesses table has first_seen <= last_updated, in
\* every state the scans and the operator's edits reach (the clock never
\* runs backwards)
C21_FirstSeenBeforeLastUpdated ==
    \A b \in businesses : b.first_seen <= b.last_updated

\* A row created by one scan and merged by a later one
C21_Witness ==
    \E b \in businesses : b.first_seen < b.last_updated /\ Len(scan_history) = 2

\* A turn of the loop of perform_scan: the place it looks at
LoopTurn == eng.pc = "loop" /\ eng.i <= Len(eng.places) /\ eng'.i = eng.i + 1

\* The return of perform_scan after the loop
ScanReturns == eng.pc = "loop" /\ eng'.pc = "idle"

\* Some category of the place holds, case folded, an excluded string
CategoryExcluded(place, settings) ==
    \E i \in 1..Len(place.categories) :
        \E k \in 1..Len(settings.exclude_categories) :
            contains(lower(settings.exclude_categories[k]), lower(place.categories[i]))

\* C22: a fetched place with a category that holds, whatever the case, an
\* excluded string creates no business and modifies none in that scan, and
\* is in neither of the lists the scan counts
C22_ExcludedCategoryDropped ==
    [][/\ (LoopTurn /\ CategoryExcluded(eng.places[eng.i], eng.settings))
          => /\ businesses' = businesses
             /\ eng'.new_businesses = eng.new_businesses
             /\ eng'.updated_businesses = eng.updated_businesses
       /\ ScanReturns
          => LET row  == scan_history'[Len(scan_history')]
                 kept == {i \in 1..Len(eng.places) :
                            ~CategoryExcluded(eng.places[i], eng.settings)}
             IN  row.new_businesses + row.updated_businesses <= Cardinality(kept)]_vars

\* The loop has passed a place excluded by an upper-case string, whose row
\* in the table differs from it
C22_Witness ==
    /\ eng.pc = "loop"
    /\ eng.i > 1
    /\ eng.settings.exclude_categories = << <<"B", "A">> >>
    /\ CategoryExcluded(eng.places[eng.i - 1], eng.settings)
    /\ \E b \in businesses :
          /\ b.fsq_id = eng.places[eng.i - 1].fsq_id
          /\ b.categories /= eng.places[eng.i - 1].categories

\* The turn of the loop leaves the place at eng.i out: the table is as it
\* was although the place has no row, or has one that differs from it
Dropped ==
    LET place == eng.places[eng.i] IN
    /\ businesses' = businesses
    /\ \A b \in get_business(place.fsq_id) : changes_made(b, place)

\* C23: a fetched place is dropped whenever its rating and the threshold are
\* both present and the rating is below the threshold, a rating of 0
\* included; on rating grounds it is dropped in no other case
C23_RatingExclusion ==
    [][LoopTurn /\ ~CategoryExcluded(eng.places[eng.i], eng.settings)
       => LET rating    == eng.places[eng.i].rating
              threshold == eng.settings.min_rating_threshold
          IN  Dropped <=> /\ rating /= NoNumber
                          /\ threshold /= NoNumber
                          /\ rating < threshold]_vars

\* The turn of the loop creates a business
Creates == LoopTurn /\ Len(eng'.new_businesses) = Len(eng.new_businesses) + 1

\* Some category of the place holds, case folded, a monitored string
CategoryMonitored(place, settings) ==
    \E i \in 1..Len(place.categories) :
        \E k \in 1..Len(settings.categories_to_monitor) :
            contains(lower(settings.categories_to_monitor[k]), lower(place.categories[i]))

\* C24: a business is created as a competitor exactly when the list of
\* monitored categories is empty or some category of the fetched place
\* holds, whatever the case, a monitored string
C24_CompetitorOnCreation ==
    [][Creates
       => LET created == eng'.new_businesses[Len(eng'.new_businesses)]
              place   == eng.places[eng.i]
          IN  /\ created \in businesses'
              /\ created.fsq_id = place.fsq_id
              /\ created.is_competitor
                   <=> \/ eng.settings.categories_to_monitor = <<>>
                       \/ CategoryMonitored(place, eng.settings)]_vars

\* One scan monitoring "GAS" has created a competitor (category "Gas") and a
\* business that is none
C24_Witness ==
    /\ eng.pc = "loop"
    /\ eng.settings.categories_to_monitor = << <<"G", "A", "S">> >>
    /\ \E i, k \in 1..Len(eng.new_businesses) :
          /\ eng.new_businesses[i].is_competitor
          /\ ~eng.new_businesses[k].is_competitor
    /\ \A i \in 1..Len(eng.new_businesses) : eng.new_businesses[i] \in businesses

\* A step of perform_scan, and no edit of the operator
ScanStep == edits' = edits

\* C25: no step of a scan changes is_competitor or notes of a row of the
\* businesses table, whatever the monitored categories of that scan are
C25_CompetitorAndNotesSticky ==
    [][ScanStep
       => \A b \in businesses : \A c \in businesses' :
              c.fsq_id = b.fsq_id
              => c.is_competitor = b.is_competitor /\ c.notes = b.notes]_vars

\* A scan has merged a place into a row whose flag is not what the rule
\* gives for that place under the settings of this scan
C25_Witness ==
    /\ eng.pc = "loop"
    /\ eng.i > 1
    /\ eng.updated_businesses /= <<>>
    /\ LET updated == eng.updated_businesses[Len(eng.updated_businesses)]
           place   == eng.places[eng.i - 1]
       IN  /\ updated \in businesses
           /\ updated.fsq_id = place.fsq_id
           /\ updated.rating = place.rating
           /\ updated.first_seen < updated.last_updated
           /\ updated.is_competitor /= _is_potential_competitor(place, eng.settings)

\* The rows the step appends to the notifications table
AddedNotifications ==
    SubSeq(notifications', Len(notifications) + 1, Len(notifications'))

\* How many of the added rows are of that type and refer to that business
AddedAbout(type, business) ==
    Cardinality({j \in 1..Len(AddedNotifications) :
                    /\ AddedNotifications[j].type = type
                    /\ AddedNotifications[j].business_fsq_id = business.fsq_id
                    /\ AddedNotifications[j].business_name = business.name})

\* How many of the added rows are of that type
AddedOfType(type) ==
    Cardinality({j \in 1..Len(AddedNotifications) : AddedNotifications[j].type = type})

\* C26: a scan persists one NEW_BUSINESS notification for each business it
\* created as a competitor when notify_new_businesses is on, and none for
\* the other new businesses or when the toggle is off
C26_NewBusinessNotified ==
    [][ScanReturns
       => LET new == eng.new_businesses
              competitors == {i \in 1..Len(new) : new[i].is_competitor}
          IN  /\ \A i \in 1..Len(new) :
                    AddedAbout(NEW_BUSINESS, new[i])
                      = IF eng.settings.notify_new_businesses /\ new[i].is_competitor
                        THEN 1 ELSE 0
              /\ AddedOfType(NEW_BUSINESS)
                   = IF eng.settings.notify_new_businesses
                     THEN Cardinality(competitors) ELSE 0]_vars

\* A scan monitoring "GAS" has returned having created a competitor and a
\* business that is none, and notified the competitor alone
C26_Witness ==
    /\ eng.pc = "idle"
    /\ Len(scan_history) = 1
    /\ scan_history[1].new_businesses = 2
    /\ \E b \in businesses : ~b.is_competitor
    /\ Len(notifications) = 1
    /\ notifications[1].type = NEW_BUSINESS
    /\ \E b \in businesses : b.is_competitor /\ b.fsq_id = notifications[1].business_fsq_id

IsBusinessUpdated(row) == row.type = BUSINESS_UPDATED

\* C27: a scan persists one BUSINESS_UPDATED notification for each entry of
\* its updated list when notify_rating_changes is on, whichever field
\* changed, and none when it is off; notify_trending changes nothing of what
\* the scan persists
C27_UpdatedNotified ==
    [][ScanReturns
       => LET updated == eng.updated_businesses
              rows    == SelectSeq(AddedNotifications, IsBusinessUpdated)
          IN  /\ Len(rows) = IF eng.settings.notify_rating_changes THEN Len(updated) ELSE 0
              /\ \A j \in 1..Len(rows) :
                    /\ rows[j].business_fsq_id = updated[j].fsq_id
                    /\ rows[j].business_name = updated[j].name
              /\ \A j \in 1..Len(AddedNotifications) :
                    AddedNotifications[j].type \in {NEW_BUSINESS, BUSINESS_UPDATED}
              /\ notifications'
                   = _generate_notifications(notifications, eng.new_businesses, updated,
                        [eng.settings EXCEPT !.notify_trending = ~eng.settings.notify_trending])
       ]_vars

\* A scan has returned having merged a new name, the rating as it was, and
\* notified the update
C27_Witness ==
    /\ eng.pc = "idle"
    /\ Len(scan_history) = 2
    /\ scan_history[2].updated_businesses = 1
    /\ calls[2].settings.notify_rating_changes
    /\ \E b \in businesses :
          /\ b.rating = 40
          /\ b.first_seen < b.last_updated
          /\ \E j \in 1..Len(notifications) :
                /\ notifications[j].type = BUSINESS_UPDATED
                /\ notifications[j].business_fsq_id = b.fsq_id
                /\ notifications[j].business_name = "Due"

\* The entries of a list for which save_business returned True
Saved(results) == {i \in 1..Len(results) : results[i]}

\* C28: a scan in which save_business fails for a new or changed business
\* goes on to its end, counts that business in neither count of its record
\* and notifies it neither as new nor as updated
C28_FailedSaveNotCounted ==
    [][ScanReturns
       => LET row == scan_history'[Len(scan_history')] IN
          /\ row.success
          /\ row.new_businesses = Cardinality(Saved(eng.new_saved))
          /\ row.updated_businesses = Cardinality(Saved(eng.updated_saved))
          /\ \A i \in 1..Len(eng.new_businesses) :
                ~eng.new_saved[i] => AddedAbout(NEW_BUSINESS, eng.new_businesses[i]) = 0
          /\ \A i \in 1..Len(eng.updated_businesses) :
                ~eng.updated_saved[i]
                => AddedAbout(BUSINESS_UPDATED, eng.updated_businesses[i]) = 0]_vars

\* perform_scan is called and search_nearby raises
SearchRaises == Len(calls') = Len(calls) + 1 /\ calls'[Len(calls')].raised

\* C29: when search_nearby raises, perform_scan persists one scan record
\* with success false and an error message that is not empty, creates and
\* changes no business, stores no notification, and returns to its caller
C29_RaisingSearchRecorded ==
    [][SearchRaises
       => /\ Len(scan_history') = Len(scan_history) + 1
          /\ SubSeq(scan_history', 1, Len(scan_history)) = scan_history
          /\ LET row == scan_history'[Len(scan_history')] IN
                /\ ~row.success
                /\ row.error_message /= None
                /\ row.error_message /= ""
                /\ row.new_businesses = 0
                /\ row.updated_businesses = 0
          /\ businesses' = businesses
          /\ notifications' = notifications
          /\ eng' = EngIdle]_vars

\* A scan that created a business, then a scan whose search raised
C29_Witness ==
    /\ Len(scan_history) = 2
    /\ scan_history[1].success
    /\ ~scan_history[2].success
    /\ calls[2].raised
    /\ businesses /= {}
    /\ businesses = calls[2].before
    /\ eng = EngIdle

\* The recorded calls whose timestamp is within the last time_window seconds
InWindow ==
    {i \in 1..Len(recorded) : time - recorded[i] < rate_limiter.time_window}

\* C30: can_make_request returns True exactly when fewer than max_requests
\* recorded calls have a timestamp within the last time_window seconds (a
\* call aged to time_window seconds or more no longer counts), and leaves in
\* the list the timestamps within the window and no other
C30_LimiterWindow ==
    allowed /= None
    => /\ allowed = True <=> Cardinality(InWindow) < rate_limiter.max_requests
       /\ allowed = False <=> Cardinality(InWindow) >= rate_limiter.max_requests
       /\ Len(rate_limiter.requests) = Cardinality(InWindow)
       /\ \A k \in 1..Len(rate_limiter.requests) :
             time - rate_limiter.requests[k] < rate_limiter.time_window

\* The limiter allows a call again: as many calls as the cap were recorded at
\* one time, and they are exactly time_window seconds old
C30_Witness ==
    /\ allowed = True
    /\ Len(recorded) = rate_limiter.max_requests
    /\ \A i \in 1..Len(recorded) : time - recorded[i] = rate_limiter.time_window
    /\ rate_limiter.requests = <<>>

\* The exclusion policy of the filters: an excluded category, or a rating
\* present and below a threshold that is present
FilteredOut(place, settings) ==
    \/ CategoryExcluded(place, settings)
    \/ /\ place.rating /= NoNumber
       /\ settings.min_rating_threshold /= NoNumber
       /\ place.rating < settings.min_rating_threshold

\* The rows of the table before the scan under way that no fetched place
\* accepted by `keeps` refers to
Bystanders(keeps(_, _)) ==
    LET this == calls[Len(calls)] IN
    {b \in this.before :
        \A i \in 1..Len(this.places) :
            this.places[i].fsq_id = b.fsq_id => ~keeps(this.places[i], this.settings)}

PassesFilters(place, settings) == ~FilteredOut(place, settings)

PassesCode(place, settings) == ~_should_exclude_business(place, settings)

\* C40: a scan leaves every stored business whose identifier is not in the
\* fetched list, or whose fetched places were all excluded by the filters,
\* exactly as it was before the scan
C40_BystandersUntouched ==
    [][ScanReturns => \A b \in Bystanders(PassesFilters) : b \in businesses']_vars

\* The same with the places that _should_exclude_business excludes
BystandersOfCodeUntouched ==
    [][ScanReturns => \A b \in Bystanders(PassesCode) : b \in businesses']_vars

\* A scan has returned that fetched nothing about a stored business and
\* merged another
BystandersWitness ==
    /\ eng.pc = "idle"
    /\ Len(calls) = 2
    /\ Len(scan_history) = 2
    /\ scan_history[2].updated_businesses + scan_history[2].new_businesses > 0
    /\ \E b \in calls[2].before :
          /\ \A i \in 1..Len(calls[2].places) : calls[2].places[i].fsq_id /= b.fsq_id
          /\ b \in businesses

\* Context c enters perform_scan
ScanStarts(c) == ~InPerformScan(c) /\ scan'[c].phase = "fetch"

\* C36: every scan the scheduler starts (timer, force_scan_now, manual scan)
\* is passed the settings that are in the store when it starts
C36_ScanUsesStoredSettings ==
    [][\A c \in Contexts : ScanStarts(c) => scan'[c].settings = db_settings]_vars

\* The same for the scans run_scheduled_scan starts (timer, force_scan_now)
ScheduledScanUsesStoredSettings ==
    [][\A t \in Threads : ScanStarts(t) => scan'[t].settings = db_settings]_vars

\* A scheduled scan under way with settings other than the scheduler's cache
ScheduledScanFreshWitness ==
    \E t \in Threads : /\ InPerformScan(t)
                       /\ scan[t].settings /= current_settings
                       /\ is_running

\* What a notification says: everything but its two flags
Content(n) == <<n.type, n.title, n.message, n.business_fsq_id, n.business_name>>

\* The rows of the notifications table the step changes
Touched == {i \in 1..Len(notifications) : notifications'[i] /= notifications[i]}

\* C35: no step of the scheduler, of a scan, of mark_notification_read or of
\* dismiss_notification removes a notification or changes what it says; the
\* read and dismissed flags only go from false to true, and marking one id
\* leaves every other row as it was
C35_NotificationsAppendOnly ==
    [][/\ Len(notifications') >= Len(notifications)
       /\ \A i \in 1..Len(notifications) :
             /\ Content(notifications'[i]) = Content(notifications[i])
             /\ notifications[i].read => notifications'[i].read
             /\ notifications[i].dismissed => notifications'[i].dismissed
       /\ Cardinality(Touched) <= 1
       /\ Touched /= {} => Len(notifications') = Len(notifications)]_vars

\* Of two notifications the first has been marked read, the second is as it
\* was written
C35_Witness ==
    /\ Len(notifications) = 2
    /\ notifications[1] = [Started EXCEPT !.read = TRUE]
    /\ notifications[2] = Stopped

(* ------------------------------ claim C37 ------------------------------- *)
\* C37: after any sequence of save_monitoring_settings calls, inserts of
\* objects without an id and updates of objects with one,
\* get_monitoring_settings returns the values of the object saved last.
C37_LatestSavedIsReturned ==
    last_saved /= NULL =>
        DatabaseManager_get_monitoring_settings(settings_table) = last_saved

\* A save of an object without an id, or of the object the last
\* get_monitoring_settings returned, is what get_monitoring_settings
\* returns next.
SaveOfLatestIsReturned ==
    [][\A settings \in SettingsObjects(settings_table) :
          (/\ DatabaseManager_save_monitoring_settings(settings)
           /\ settings.id \in {0, Len(settings_table)})
          => DatabaseManager_get_monitoring_settings(settings_table') = values(settings)]_vars

\* Two rows, and then an update of the first one
StaleUpdateWitness ==
    /\ Len(settings_table) = 2
    /\ events = 3
    /\ values(settings_table[1]) = last_saved
    /\ values(settings_table[2]) /= last_saved

(* ------------------------------ claim C32 ------------------------------- *)
\* The requests of the call under way or just ended, in order
RequestsOfCall == LET mine(r) == r.call = client.ncalls IN SelectSeq(sent, mine)

\* session.get raised, or answered with a status other than 200 and 429
Failure(answer) == answer.raises \/ answer.status_code \notin {200, 429}

\* What a call returns for "no result"
NoResult(op) == IF op = "get_place_details" THEN ReturnsNone ELSE ReturnsList(<<>>)

\* C32: a request that meets a transport error or a status other than 200
\* and 429 is the last request of its call, and the call returns no result:
\* an empty list from search_nearby, None from get_place_details; it raises
\* nothing.
C32_FailureReturnsNoResult ==
    \A i \in 1..Len(sent) :
        Failure(sent[i].answer) =>
            /\ \A j \in (i + 1)..Len(sent) : sent[j].call /= sent[i].call
            /\ sent[i].call = client.ncalls =>
                  client.pc = "idle" /\ client.result = NoResult(client.op)

\* A details call that was retried after a 429 and then met a transport
\* error, and a search that was answered 500
C32_Witness ==
    /\ client.pc = "idle"
    /\ client.op = "search_nearby"
    /\ client.result = ReturnsList(<<>>)
    /\ Len(sent) = 3
    /\ sent[1].call = 1 /\ sent[1].answer = Answer(429)
    /\ sent[2].call = 1 /\ sent[2].answer = RequestException
    /\ sent[3].call = 2 /\ sent[3].answer = Answer(500)
    /\ sent[3].endpoint = "search" /\ sent[1].endpoint = "1"

(* ------------------------------ claim C39 ------------------------------- *)
\* C39: a call whose first request is answered 429 and whose second is
\* answered 200 sleeps one cool-down between them, sends the second to the
\* same endpoint with the same params, sends no third, returns what the 200
\* response parses to, and has recorded both requests in the rate limiter.
C39_Single429Recovery ==
    LET rs == RequestsOfCall IN
    (/\ client.pc = "idle"
     /\ Len(rs) >= 2
     /\ rs[1].answer = Answer(429)
     /\ rs[2].answer = Answer(200))
    => /\ Len(rs) = 2
       /\ client.attempts = 2
       /\ client.retry_sleeps = 1
       /\ rs[2].at >= rs[1].at + Cooldown
       /\ rs[2].endpoint = rs[1].endpoint
       /\ rs[2].params = rs[1].params
       /\ client.result = returns(client.op, FALSE, client.body)
       /\ Len(recorded) >= 2
       /\ SubSeq(recorded, Len(recorded) - 1, Len(recorded)) = <<rs[1].at, rs[2].at>>
       /\ rate_limiter.requests /= <<>>
       /\ rate_limiter.requests[Len(rate_limiter.requests)] = rs[2].at

\* A search answered 429 and then 200 has returned its two places
C39_Witness ==
    /\ client.pc = "idle"
    /\ client.op = "search_nearby"
    /\ Len(sent) = 2
    /\ sent[1].answer = Answer(429)
    /\ sent[2].answer = Answer(200)
    /\ client.result.kind = "list"
    /\ Len(client.result.places) = 2
    /\ recorded = <<0, Cooldown>>

(* ------------------------------ claim C31 ------------------------------- *)
\* Every request of the call so far was answered 429
Only429 == \A i \in 1..Len(RequestsOfCall) : RequestsOfCall[i].answer = Answer(429)

\* C31: a call whose every request is answered 429 stops after the one
\* retry, two requests in all, and then returns no result; it neither
\* sends a third request nor raises.
C31_Bounded429Retry ==
    (client.op /= "none" /\ Only429)
    => /\ Len(RequestsOfCall) <= 2
       /\ (client.pc = "idle" /\ Len(RequestsOfCall) > 0) => client.result = NoResult(client.op)

\* A call answered 429 only never returns: it is in _make_request, or it has
\* been ended by the RecursionError of the deepest frame.
Only429NeverReturns ==
    (client.op /= "none" /\ Only429 /\ Len(RequestsOfCall) > 0)
    => \/ client.pc = "request" /\ client.attempts < MaxAttempts
       \/ /\ client.pc = "idle"
          /\ client.attempts = MaxAttempts
          /\ client.result = Raises(RecursionError)

\* A call answered 429 as often as the interpreter let it recurse
Only429Witness ==
    /\ client.pc = "idle"
    /\ Only429
    /\ Len(RequestsOfCall) = MaxAttempts
    /\ client.retry_sleeps = MaxAttempts

(* ------------------------------ claim C38 ------------------------------- *)
\* The requests before request i that the limiter recorded and that are
\* inside the limiter's window when request i is sent
InWindowBefore(i) ==
    {j \in 1..(i - 1) : /\ ~sent[j].answer.raises
                        /\ sent[i].at - sent[j].at < rate_limiter.time_window}

\* C38: whenever the client sends a request, can_make_request would answer
\* True: fewer than max_requests recorded requests lie inside the window, so
\* no window ever holds more requests than the cap.
C38_LimiterGatesClient ==
    \A i \in 1..Len(sent) : Cardinality(InWindowBefore(i)) < rate_limiter.max_requests

\* A request sent when can_make_request answered True finds fewer than
\* max_requests recorded requests inside the window.
OpenGateWithinCap ==
    \A i \in 1..Len(sent) :
        sent[i].gate_open => Cardinality(InWindowBefore(i)) < rate_limiter.max_requests

\* A request sent one cool-down after can_make_request answered False,
\* with the window as full as before
SentThroughClosedGate ==
    \E i \in 1..Len(sent) :
        /\ ~sent[i].gate_open
        /\ Cardinality(InWindowBefore(i)) >= rate_limiter.max_requests

(* ------------------------------ claim C33 ------------------------------- *)
\* A search_nearby call has returned or raised on a 200 response whose body
\* is an object
SearchAnswered ==
    /\ client.pc = "idle"
    /\ client.op = "search_nearby"
    /\ RequestsOfCall /= <<>>
    /\ RequestsOfCall[Len(RequestsOfCall)].answer = Answer(200)
    /\ ~client.body.array

\* The result carries an id and a name
HasIdAndName(result) == result.dict /\ result.fsq_id /= Missing /\ result.name /= Missing

\* The ids of a list of results or places
ids(list) == [i \in 1..Len(list) |-> list[i].fsq_id]

\* C33: search_nearby returns, in the order of the response, exactly the
\* results that carry an id and a name; a result without one of them is
\* dropped, the others are returned and the call does not fail.
C33_MalformedResultsDropped ==
    SearchAnswered
    => /\ client.result.kind = "list"
       /\ ids(client.result.places) = ids(SelectSeq(client.body.results, HasIdAndName))

\* The same for the responses whose results are all dicts and whose
\* categories all have a name
WellFormedOtherwise ==
    \A i \in 1..Len(client.body.results) :
        /\ client.body.results[i].dict
        /\ \A k \in 1..Len(client.body.results[i].categories) :
              client.body.results[i].categories[k].name /= Missing
DroppedWhenOtherwiseWellFormed ==
    (SearchAnswered /\ WellFormedOtherwise)
    => /\ client.result.kind = "list"
       /\ ids(client.result.places) = ids(SelectSeq(client.body.results, HasIdAndName))

\* A result without a name dropped and the one after it returned
DroppedWitness ==
    /\ SearchAnswered
    /\ Len(client.body.results) = 2
    /\ client.body.results[1].dict
    /\ client.body.results[1].name = Missing
    /\ ids(client.result.places) = <<"2">>

\* A result with an id and a name dropped for a category without a name,
\* and a call that raised on a result that is not a dict
NamelessCategoryWitness ==
    /\ SearchAnswered
    /\ Len(client.body.results) = 1
    /\ HasIdAndName(client.body.results[1])
    /\ client.result = ReturnsList(<<>>)
NotADictWitness ==
    /\ SearchAnswered
    /\ Len(client.body.results) = 2
    /\ HasIdAndName(client.body.results[1])
    /\ client.result = Raises(TypeError)

(* ------------------------------ claim C34 ------------------------------- *)
\* A get_trending_places call has returned on a 200 response
TrendingAnswered ==
    /\ client.pc = "idle"
    /\ client.op = "get_trending_places"
    /\ RequestsOfCall /= <<>>
    /\ RequestsOfCall[Len(RequestsOfCall)].answer = Answer(200)
    /\ client.result.kind = "list"

\* The places search_nearby returns for the body with a popularity above 0.7
Popular ==
    LET high(place) == place.popularity /= NoNumber /\ place.popularity > TrendingThreshold
    IN SelectSeq(search_nearby_returns(FALSE, client.body).places, high)

\* The elements of a list
Range(list) == {list[i] : i \in 1..Len(list)}

\* C34: get_trending_places returns places of the search_nearby result whose
\* popularity is present and above 0.7, none twice, by descending
\* popularity, all of them up to ten, and no place left out is more popular
\* than one returned; every request of the call is the search request.
C34_TrendingDerivation ==
    TrendingAnswered
    => LET out == client.result.places IN
       /\ Range(out) \subseteq Range(Popular)
       /\ \A i, j \in 1..Len(out) : i < j => out[i] /= out[j]
       /\ \A i \in 1..(Len(out) - 1) : out[i].popularity >= out[i + 1].popularity
       /\ Len(out) = IF Len(Popular) < TrendingLimit THEN Len(Popular) ELSE TrendingLimit
       /\ \A p \in Range(Popular) \ Range(out) :
              \A i \in 1..Len(out) : out[i].popularity >= p.popularity
       /\ \A i \in 1..Len(RequestsOfCall) :
              /\ RequestsOfCall[i].endpoint = "search"
              /\ RequestsOfCall[i].params = "ll,radius,limit,fields"
       /\ \A i \in 1..(Len(RequestsOfCall) - 1) : RequestsOfCall[i].answer = Answer(429)

\* Eleven popular places, the last of them among the most popular: ten are
\* returned, the last one among them and a less popular one left out
C34_Witness ==
    /\ TrendingAnswered
    /\ Len(Popular) = TrendingLimit + 1
    /\ Len(client.result.places) = TrendingLimit
    /\ Popular[1].popularity = 8
    /\ Popular[TrendingLimit + 1].popularity = 9
    /\ Popular[TrendingLimit + 1] \in Range(client.result.places)
    /\ client.result.places[TrendingLimit].popularity = 8

\* A place of popularity 0.7 and one without a popularity, both left out
C34_ThresholdWitness ==
    /\ TrendingAnswered
    /\ Len(client.body.results) = 2
    /\ client.body.results[1].popularity = TrendingThreshold
    /\ client.body.results[2].popularity = NoNumber
    /\ HasIdAndName(client.body.results[1])
    /\ HasIdAndName(client.body.results[2])
    /\ client.result = ReturnsList(<<>>)

====
